---- MODULE Spec2Model ----
(***************************************************************************)
(* Model of bursavich.dev/sets (v2): the sorted-list algorithms of         *)
(* internal/slicesx, the natural-order sorted set (ordered), the           *)
(* comparator sorted set (funcSorted) and the hash table set (table).      *)
(*                                                                         *)
(* Go slices are sequences.  Operators keep Go's 0-based indices in their  *)
(* parameters and convert at the point of access.                          *)
(***************************************************************************)
EXTENDS Integers, Sequences, FiniteSets, TLC

\* Largest element value: the element type is the integers 0..MaxElem.
MaxElem == 2
\* Longest argument list given to InsertAll / RemoveAll / a constructor.
MaxArgs == 2
\* Longest list a set is allowed to grow to.
MaxLen == 3

Elem == 0..MaxElem

\* The zero value of the element type (what clear() writes).
Zero == 0

(***************************************************************************)
(* Caller-supplied comparators.                                            *)
(*   desc   : descending order, identity = order key                       *)
(*   len    : order key x div 2, identity = order key (coarse identity)    *)
(*   lenval : order key x div 2, identity = the value (runs of distinct    *)
(*            identities sharing one order key)                            *)
(*   par    : even before odd (order key x mod 2), identity = the value    *)
(*   run    : every element has the same order key, identity = the value   *)
(* Pairs that break the contract of CmpFunc / EqFunc:                      *)
(*   gt     : cmp returns 1 for every pair, eq is never true               *)
(*   eqkey  : natural order, eq compares x div 2 (eq without cmp = 0)      *)
(*   neq    : order key x div 2, eq is never true (not even eq(x, x))      *)
(***************************************************************************)
Cmps == {"desc", "len", "lenval"}
BadCmps == {"gt", "eqkey", "neq"}

Sign(n) == IF n < 0 THEN -1 ELSE IF n > 0 THEN 1 ELSE 0

Key(c, x) ==
    CASE c \in {"nat", "eqkey"} -> x
      [] c = "run" -> 0
      [] c = "desc" -> 0 - x
      [] c = "par" -> x % 2
      [] OTHER -> x \div 2

cmp(c, a, b) == IF c = "gt" THEN 1 ELSE Sign(Key(c, a) - Key(c, b))

eq(c, a, b) ==
    CASE c \in {"lenval", "par", "run"} -> a = b
      [] c = "eqkey" -> a \div 2 = b \div 2
      [] c \in {"gt", "neq"} -> FALSE
      [] OTHER -> cmp(c, a, b) = 0

---------------------------------------------------------------------------
(* Slice primitives. *)

\* a[i:j]
Slice(a, i, j) == SubSeq(a, i + 1, j)

\* copy(a[lo:hi], src): copies min(hi-lo, len(src)) elements, returns the array.
Copy(a, lo, hi, src) ==
    LET m == IF hi - lo < Len(src) THEN hi - lo ELSE Len(src)
    IN [j \in 1..Len(a) |-> IF j > lo /\ j <= lo + m THEN src[j - lo] ELSE a[j]]

\* Number of elements copy(a[lo:hi], src) copies.
CopyN(lo, hi, src) == IF hi - lo < Len(src) THEN hi - lo ELSE Len(src)

\* clear(a[lo:])
Clear(a, lo) == [j \in 1..Len(a) |-> IF j > lo THEN Zero ELSE a[j]]

\* slices.Grow(a, k)[0:k]: the new slots hold unspecified stale values.
Grow(a, k) == [j \in 1..k |-> IF j <= Len(a) THEN a[j] ELSE Zero]

\* slices.IndexFunc(list, func(x) bool { return eq(c, e, x) }), 0-based, -1 if none.
IndexEq(c, e, list) ==
    IF \E j \in 1..Len(list) : eq(c, e, list[j])
    THEN (CHOOSE j \in 1..Len(list) :
             /\ eq(c, e, list[j])
             /\ \A k \in 1..(j - 1) : ~eq(c, e, list[k])) - 1
    ELSE -1

---------------------------------------------------------------------------
(* internal/slicesx *)

RECURSIVE insertIntoLoop(_, _, _, _, _)
insertIntoLoop(a, inserts, v, i, k) ==
    IF v < 0 THEN a
    ELSE LET x  == inserts[v + 1].i
             n  == i - x
             a1 == Copy(a, k - n, k, Slice(a, x, x + n))
             k1 == k - (n + 1)
             a2 == [a1 EXCEPT ![k1 + 1] = inserts[v + 1].e]
         IN insertIntoLoop(a2, inserts, v - 1, x, k1)

\* Every slice expression and index of the loop of insertInto on an array of
\* len slots stays inside the array: a[k-n:k], a[x:x+n] and a[k].
RECURSIVE insertIntoLoopInBounds(_, _, _, _, _)
insertIntoLoopInBounds(len, inserts, v, i, k) ==
    IF v < 0 THEN TRUE
    ELSE LET x  == inserts[v + 1].i
             n  == i - x
             k1 == k - (n + 1)
         IN /\ 0 <= k - n /\ k - n <= k /\ k <= len
            /\ 0 <= x /\ x <= x + n /\ x + n <= len
            /\ 0 <= k1 /\ k1 < len
            /\ insertIntoLoopInBounds(len, inserts, v - 1, x, k1)

\* insertInto(a, tail, inserts) runs without an index out of range.
insertIntoInBounds(a, tail, inserts) ==
    LET k  == Len(a) + Len(inserts) + Len(tail)
        k1 == k - Len(tail)
    IN /\ 0 <= k1 /\ k1 <= k
       /\ insertIntoLoopInBounds(k, inserts, Len(inserts) - 1, Len(a), k1)

\* Mutant: the slice is grown for the inserts only, not for the tail.
insertInto_NoTail(a, tail, inserts) ==
    LET i  == Len(a)
        k  == Len(a) + Len(inserts)
        a1 == Grow(a, k)
    IN insertIntoLoop(a1, inserts, Len(inserts) - 1, i, k)

insertInto(a, tail, inserts) ==
    LET extra == Len(inserts) + Len(tail)
        i  == Len(a)
        k  == Len(a) + extra
        a1 == Grow(a, k)
        k1 == k - Len(tail)
        a2 == Copy(a1, k1, k, tail)
    IN insertIntoLoop(a2, inserts, Len(inserts) - 1, i, k1)

RECURSIVE MergeSortedUniqLoop(_, _, _, _, _)
MergeSortedUniqLoop(a, b, ai, bi, inserts) ==
    IF ai < Len(a) /\ bi < Len(b)
    THEN LET av == a[ai + 1]
             bv == b[bi + 1]
         IN IF av < bv THEN MergeSortedUniqLoop(a, b, ai + 1, bi, inserts)
            ELSE IF av > bv
                 THEN MergeSortedUniqLoop(a, b, ai, bi + 1,
                                          Append(inserts, [i |-> ai, e |-> bv]))
                 ELSE MergeSortedUniqLoop([a EXCEPT ![ai + 1] = bv], b,
                                          ai + 1, bi + 1, inserts)
    ELSE [a |-> a, tail |-> Slice(b, bi, Len(b)), inserts |-> inserts]

MergeSortedUniq(a, b) ==
    LET m == MergeSortedUniqLoop(a, b, 0, 0, <<>>)
    IN insertInto(m.a, m.tail, m.inserts)

\* len(runEq(elems, cmp))
RECURSIVE runEqLoop(_, _, _)
runEqLoop(c, elems, n) ==
    IF n < Len(elems) /\ cmp(c, elems[1], elems[n + 1]) = 0
    THEN runEqLoop(c, elems, n + 1)
    ELSE n

runEq(c, elems) ==
    IF Len(elems) < 2 THEN Len(elems) ELSE runEqLoop(c, elems, 1)

\* The body of "for _, be := range br" in MergeSorted: ar is a[lo:lo+arn],
\* inserts are scheduled at the end of the run.
RECURSIVE MergeRun(_, _, _, _, _, _, _)
MergeRun(c, a, lo, arn, br, j, inserts) ==
    IF j > Len(br) THEN [a |-> a, inserts |-> inserts]
    ELSE LET be == br[j]
             i  == IndexEq(c, be, Slice(a, lo, lo + arn))
         IN IF i >= 0
            THEN MergeRun(c, [a EXCEPT ![lo + i + 1] = be], lo, arn, br, j + 1, inserts)
            ELSE MergeRun(c, a, lo, arn, br, j + 1,
                          Append(inserts, [i |-> lo + arn, e |-> be]))

RECURSIVE MergeSortedLoop(_, _, _, _, _, _)
MergeSortedLoop(c, a, b, ai, bi, inserts) ==
    IF ai < Len(a) /\ bi < Len(b)
    THEN LET r == cmp(c, a[ai + 1], b[bi + 1])
         IN IF r < 0 THEN MergeSortedLoop(c, a, b, ai + 1, bi, inserts)
            ELSE IF r > 0
                 THEN MergeSortedLoop(c, a, b, ai, bi + 1,
                                      Append(inserts, [i |-> ai, e |-> b[bi + 1]]))
                 ELSE LET arn == runEq(c, Slice(a, ai, Len(a)))
                          brn == runEq(c, Slice(b, bi, Len(b)))
                          m   == MergeRun(c, a, ai, arn, Slice(b, bi, bi + brn), 1, inserts)
                      IN MergeSortedLoop(c, m.a, b, ai + arn, bi + brn, m.inserts)
    ELSE [a |-> a, tail |-> Slice(b, bi, Len(b)), inserts |-> inserts]

\* Mutant: the values written over elements of A inside the loop are lost.
MergeSorted_KeepOld(c, a, b) ==
    LET m == MergeSortedLoop(c, a, b, 0, 0, <<>>)
    IN insertInto(a, m.tail, m.inserts)

MergeSorted(c, a, b) ==
    LET m == MergeSortedLoop(c, a, b, 0, 0, <<>>)
    IN insertInto(m.a, m.tail, m.inserts)

RECURSIVE deleteFromLoop(_, _, _, _, _)
deleteFromLoop(a, deletes, x, dst, src) ==
    IF x < Len(deletes)
    THEN LET end == deletes[x + 1]
             s   == Slice(a, src, end)
         IN deleteFromLoop(Copy(a, dst, Len(a), s), deletes, x + 1,
                           dst + CopyN(dst, Len(a), s), end + 1)
    ELSE Copy(a, dst, Len(a), Slice(a, src, Len(a)))

\* Every slice expression of the loop of deleteFrom stays inside the array
\* of n slots: a[dst:] and a[src:end].
RECURSIVE deleteFromLoopInBounds(_, _, _, _, _)
deleteFromLoopInBounds(n, deletes, x, dst, src) ==
    IF x < Len(deletes)
    THEN LET end == deletes[x + 1]
             m   == IF n - dst < end - src THEN n - dst ELSE end - src
         IN /\ 0 <= dst /\ dst <= n
            /\ 0 <= src /\ src <= end /\ end <= n
            /\ deleteFromLoopInBounds(n, deletes, x + 1, dst + m, end + 1)
    ELSE /\ 0 <= dst /\ dst <= n
         /\ 0 <= src /\ src <= n

\* deleteFrom(a, deletes) runs without an index out of range.
deleteFromInBounds(a, deletes) ==
    LET n == Len(a)
        d == Len(deletes)
    IN IF d = 0 THEN TRUE
       ELSE /\ deleteFromLoopInBounds(n, deletes, 1, deletes[1], deletes[1] + 1)
            /\ 0 <= n - d

\* Mutant: the vacated slots keep the values that were slid out of them.
deleteFromArray_NoClear(a, deletes) ==
    IF Len(deletes) = 0 THEN a
    ELSE deleteFromLoop(a, deletes, 1, deletes[1], deletes[1] + 1)

\* The whole backing array a[0:n] when deleteFrom returns.
deleteFromArray(a, deletes) ==
    LET n == Len(a)
        d == Len(deletes)
    IN IF d = 0 THEN a
       ELSE Clear(deleteFromLoop(a, deletes, 1, deletes[1], deletes[1] + 1), n - d)

deleteFrom(a, deletes) ==
    Slice(deleteFromArray(a, deletes), 0, Len(a) - Len(deletes))

RECURSIVE DeleteSortedUniqLoop(_, _, _, _, _)
DeleteSortedUniqLoop(a, b, ai, bi, deletes) ==
    IF ai < Len(a) /\ bi < Len(b)
    THEN LET av == a[ai + 1]
             bv == b[bi + 1]
         IN IF av < bv THEN DeleteSortedUniqLoop(a, b, ai + 1, bi, deletes)
            ELSE IF av > bv THEN DeleteSortedUniqLoop(a, b, ai, bi + 1, deletes)
            ELSE DeleteSortedUniqLoop(a, b, ai + 1, bi + 1, Append(deletes, ai))
    ELSE deletes

DeleteSortedUniq(a, b) == deleteFrom(a, DeleteSortedUniqLoop(a, b, 0, 0, <<>>))

\* The body of "for i, ae := range ar" in DeleteSorted.
RECURSIVE DeleteRun(_, _, _, _, _, _, _)
DeleteRun(c, a, lo, arn, br, i, deletes) ==
    IF i >= arn THEN deletes
    ELSE IF \E j \in 1..Len(br) : eq(c, a[lo + i + 1], br[j])
         THEN DeleteRun(c, a, lo, arn, br, i + 1, Append(deletes, lo + i))
         ELSE DeleteRun(c, a, lo, arn, br, i + 1, deletes)

RECURSIVE DeleteSortedLoop(_, _, _, _, _, _)
DeleteSortedLoop(c, a, b, ai, bi, deletes) ==
    IF ai < Len(a) /\ bi < Len(b)
    THEN LET r == cmp(c, a[ai + 1], b[bi + 1])
         IN IF r < 0 THEN DeleteSortedLoop(c, a, b, ai + 1, bi, deletes)
            ELSE IF r > 0 THEN DeleteSortedLoop(c, a, b, ai, bi + 1, deletes)
            ELSE LET arn == runEq(c, Slice(a, ai, Len(a)))
                     brn == runEq(c, Slice(b, bi, Len(b)))
                 IN DeleteSortedLoop(c, a, b, ai + arn, bi + brn,
                        DeleteRun(c, a, ai, arn, Slice(b, bi, bi + brn), 0, deletes))
    ELSE deletes

DeleteSorted(c, a, b) == deleteFrom(a, DeleteSortedLoop(c, a, b, 0, 0, <<>>))

\* slices.SortStableFunc(list, cmp): stable insertion of each element after
\* every element that does not compare greater.
RECURSIVE InsertStable(_, _, _)
InsertStable(c, sortedList, e) ==
    IF sortedList = <<>> THEN <<e>>
    ELSE IF cmp(c, e, sortedList[Len(sortedList)]) >= 0
         THEN Append(sortedList, e)
         ELSE Append(InsertStable(c, SubSeq(sortedList, 1, Len(sortedList) - 1), e),
                     sortedList[Len(sortedList)])

RECURSIVE StableSortFunc(_, _)
StableSortFunc(c, list) ==
    IF list = <<>> THEN <<>>
    ELSE InsertStable(c, StableSortFunc(c, SubSeq(list, 1, Len(list) - 1)), list[Len(list)])

StableSort(list) == StableSortFunc("nat", list)

\* slices.Compact(list): drops every element equal (==) to its predecessor.
RECURSIVE Compact(_)
Compact(list) ==
    IF Len(list) < 2 THEN list
    ELSE LET front == Compact(SubSeq(list, 1, Len(list) - 1))
         IN IF list[Len(list)] = front[Len(front)] THEN front
            ELSE Append(front, list[Len(list)])

UniqSorted(sortedList) == Compact(sortedList)

RECURSIVE uniqEqSlowLoop(_, _, _, _)
uniqEqSlowLoop(c, list, src, dst) ==
    IF src < Len(list)
    THEN LET idx == IndexEq(c, list[src + 1], Slice(list, 0, dst))
         IN IF idx >= 0
            THEN uniqEqSlowLoop(c, [list EXCEPT ![idx + 1] = list[src + 1]], src + 1, dst)
            ELSE uniqEqSlowLoop(c, [list EXCEPT ![dst + 1] = list[src + 1]], src + 1, dst + 1)
    ELSE Slice(list, 0, dst)

uniqEqSlow(c, list) ==
    IF Len(list) < 2 THEN list ELSE uniqEqSlowLoop(c, list, 1, 1)

\* One "dst += copy(sorted[dst:], uniqEqSlow(sorted[src:i], eq))" step: the
\* run sorted[src:i] is deduplicated in place (its tail cleared), then slid left.
UniqRun(c, sortedList, src, i, dst) ==
    LET u  == uniqEqSlow(c, Slice(sortedList, src, i))
        s1 == [j \in 1..Len(sortedList) |->
                 IF j > src /\ j <= i
                 THEN (IF j - src <= Len(u) THEN u[j - src]
                       ELSE IF i - src < 2 THEN sortedList[j] ELSE Zero)
                 ELSE sortedList[j]]
    IN [list |-> Copy(s1, dst, Len(s1), u), dst |-> dst + CopyN(dst, Len(s1), u)]

RECURSIVE UniqSortedFuncsLoop(_, _, _, _, _, _)
UniqSortedFuncsLoop(c, sortedList, i, src, dst, prev) ==
    IF i < Len(sortedList)
    THEN LET next == sortedList[i + 1]
         IN IF cmp(c, next, prev) = 0
            THEN UniqSortedFuncsLoop(c, sortedList, i + 1, src, dst, prev)
            ELSE LET r == UniqRun(c, sortedList, src, i, dst)
                 IN UniqSortedFuncsLoop(c, r.list, i + 1, i, r.dst, next)
    ELSE LET r == UniqRun(c, sortedList, src, Len(sortedList), dst)
         IN Slice(Clear(r.list, r.dst), 0, r.dst)

UniqSortedFuncs(c, sortedList) ==
    IF Len(sortedList) = 0 THEN <<>>
    ELSE UniqSortedFuncsLoop(c, sortedList, 1, 0, 0, sortedList[1])

\* Mutant: the sorted list is returned with its duplicates.
StableSortUniqFuncs_NoUniq(c, list) == StableSortFunc(c, list)

StableSortUniqFuncs(c, list) == UniqSortedFuncs(c, StableSortFunc(c, list))

\* slices.BinarySearchFunc(list, e, cmp): the bisection of the standard
\* library; on an unsorted list it returns whatever the probes lead to.
RECURSIVE BinarySearchLoop(_, _, _, _, _)
BinarySearchLoop(c, list, e, i, j) ==
    IF i < j
    THEN LET h == (i + j) \div 2
         IN IF cmp(c, list[h + 1], e) < 0
            THEN BinarySearchLoop(c, list, e, h + 1, j)
            ELSE BinarySearchLoop(c, list, e, i, h)
    ELSE [i |-> i, ok |-> i < Len(list) /\ cmp(c, list[i + 1], e) = 0]

BinarySearchFunc(c, list, e) == BinarySearchLoop(c, list, e, 0, Len(list))

\* slices.BinarySearch(list, e) on a cmp.Ordered element type.
BinarySearch(list, e) == BinarySearchFunc("nat", list, e)

---------------------------------------------------------------------------
(* Set values.  A set is a record: rep is the concrete representation      *)
(* ("table", "ordered", "func"), cf the comparator of a funcSorted, list   *)
(* the owned sorted list and tbl the key set of a table's map.             *)

mkTable(tbl) == [rep |-> "table", cf |-> "nat", list |-> <<>>, tbl |-> tbl]
mkOrdered(list) == [rep |-> "ordered", cf |-> "nat", list |-> list, tbl |-> {}]
mkFunc(c, list) == [rep |-> "func", cf |-> c, list |-> list, tbl |-> {}]

\* The elements of a sequence.
Members(list) == {list[j] : j \in 1..Len(list)}

\* Iteration orders of a Go map with key set keys: every permutation of the
\* keys; a map visits its keys in the order they appear in the permutation.
Perms(keys) ==
    {p \in [1..Cardinality(keys) -> keys] : \A x \in keys : \E j \in 1..Cardinality(keys) : p[j] = x}

\* maps.Keys(tbl) / "for e := range tbl" under iteration order p.
TableOrder(tbl, p) == SelectSeq(p, LAMBDA x : x \in tbl)

newTable(elems) == mkTable(Members(elems))

\* Mutant: the elements are deduplicated without being sorted first.
order_Unsorted(elems) == mkOrdered(Compact(elems))

order(elems) == mkOrdered(Compact(StableSort(elems)))

funcSort(c, elems) == mkFunc(c, StableSortUniqFuncs(c, elems))

\* ordered.clone / funcSorted.clone / table.clone: a deep copy of the value.
clone(s) == s

(* Leaf queries. *)

ordered_Contains(s, e) == BinarySearch(s.list, e).ok

RECURSIVE searchLoop(_, _, _, _)
searchLoop(c, list, e, k) ==
    IF k >= Len(list) THEN [i |-> Len(list), ok |-> FALSE]
    ELSE IF cmp(c, e, list[k + 1]) # 0 THEN [i |-> k, ok |-> FALSE]
    ELSE IF eq(c, e, list[k + 1]) THEN [i |-> k, ok |-> TRUE]
    ELSE searchLoop(c, list, e, k + 1)

\* Mutant: only the first element of the run of equal order key is compared.
funcSorted_search_FirstOnly(s, e) ==
    LET b == BinarySearchFunc(s.cf, s.list, e)
    IN IF ~b.ok THEN [i |-> b.i, ok |-> FALSE]
       ELSE [i |-> b.i, ok |-> eq(s.cf, e, s.list[b.i + 1])]

funcSorted_search(s, e) ==
    LET b == BinarySearchFunc(s.cf, s.list, e)
    IN IF ~b.ok THEN [i |-> b.i, ok |-> FALSE]
       ELSE searchLoop(s.cf, s.list, e, b.i)

funcSorted_Contains(s, e) == funcSorted_search(s, e).ok

table_Contains(s, e) == e \in s.tbl

\* A natural-order set held behind a View the package does not know (a
\* type of the caller's that forwards Contains, Len, Range and Elems): the
\* type switches of ordered take their default branch for it.
asView(s) == [s EXCEPT !.rep = "view"]

\* View.Contains, dispatched on the concrete representation.
Contains(s, e) ==
    CASE s.rep = "table" -> table_Contains(s, e)
      [] s.rep \in {"ordered", "view"} -> ordered_Contains(s, e)
      [] OTHER -> funcSorted_Contains(s, e)

\* View.ContainsAll: the loop returns false at the first element not contained.
ContainsAll(s, elems) == \A j \in 1..Len(elems) : Contains(s, elems[j])

\* View.Len
SetLen(s) == IF s.rep = "table" THEN Cardinality(s.tbl) ELSE Len(s.list)

\* View.Elems; View.Range visits the elements in the same order.
Elems(s, p) == IF s.rep = "table" THEN TableOrder(s.tbl, p) ELSE s.list

\* "for _, e := range s.list { if !fn(e) { return } }" with a visitor fn that
\* returns false on its k-th call (k = 0: never): the arguments of the calls
\* made to fn, in the order they were made.
RECURSIVE RangeLoop(_, _, _, _)
RangeLoop(list, j, k, calls) ==
    IF j >= Len(list) THEN calls
    ELSE LET called == Append(calls, list[j + 1])
         IN IF Len(called) = k THEN called
            ELSE RangeLoop(list, j + 1, k, called)

\* View.Range
Range(s, p, k) == RangeLoop(Elems(s, p), 0, k, <<>>)

---------------------------------------------------------------------------
(* ordered: the natural-order sorted set. *)

RECURSIVE ordered_ContainsSetLoop(_, _, _, _)
ordered_ContainsSetLoop(a, b, ai, bi) ==
    IF ai < Len(a) /\ bi < Len(b)
    THEN IF a[ai + 1] < b[bi + 1] THEN ordered_ContainsSetLoop(a, b, ai + 1, bi)
         ELSE IF a[ai + 1] = b[bi + 1] THEN ordered_ContainsSetLoop(a, b, ai + 1, bi + 1)
         ELSE FALSE
    ELSE bi = Len(b)

ordered_ContainsSet(s, other) ==
    IF SetLen(other) > Len(s.list) THEN FALSE
    ELSE CASE other.rep = "table" -> \A e \in other.tbl : ordered_Contains(s, e)
           [] other.rep = "ordered" -> ordered_ContainsSetLoop(s.list, other.list, 0, 0)
           [] OTHER -> ContainsAll(s, other.list)

RECURSIVE ordered_intersectionLoop(_, _, _, _, _)
ordered_intersectionLoop(a, b, ai, bi, list) ==
    IF ai < Len(a) /\ bi < Len(b)
    THEN IF a[ai + 1] < b[bi + 1] THEN ordered_intersectionLoop(a, b, ai + 1, bi, list)
         ELSE IF a[ai + 1] > b[bi + 1] THEN ordered_intersectionLoop(a, b, ai, bi + 1, list)
         ELSE ordered_intersectionLoop(a, b, ai + 1, bi + 1, Append(list, a[ai + 1]))
    ELSE list

ordered_intersection(s, other) ==
    IF other.rep = "ordered"
    THEN mkOrdered(ordered_intersectionLoop(s.list, other.list, 0, 0, <<>>))
    ELSE mkOrdered(SelectSeq(s.list, LAMBDA e : Contains(other, e)))

RECURSIVE ordered_unionLoop(_, _, _, _, _)
ordered_unionLoop(a, b, ai, bi, list) ==
    IF ai < Len(a) /\ bi < Len(b)
    THEN IF a[ai + 1] < b[bi + 1]
         THEN ordered_unionLoop(a, b, ai + 1, bi, Append(list, a[ai + 1]))
         ELSE IF a[ai + 1] > b[bi + 1]
              THEN ordered_unionLoop(a, b, ai, bi + 1, Append(list, b[bi + 1]))
              ELSE ordered_unionLoop(a, b, ai + 1, bi + 1, Append(list, a[ai + 1]))
    ELSE list \o Slice(a, ai, Len(a)) \o Slice(b, bi, Len(b))

ordered_union(s, other, p) ==
    IF other.rep = "ordered"
    THEN mkOrdered(ordered_unionLoop(s.list, other.list, 0, 0, <<>>))
    ELSE mkOrdered(MergeSortedUniq(Compact(StableSort(Elems(other, p))), s.list))

RECURSIVE ordered_differenceLoop(_, _, _, _, _)
ordered_differenceLoop(a, b, ai, bi, list) ==
    IF ai < Len(a) /\ bi < Len(b)
    THEN IF a[ai + 1] < b[bi + 1]
         THEN ordered_differenceLoop(a, b, ai + 1, bi, Append(list, a[ai + 1]))
         ELSE IF a[ai + 1] > b[bi + 1]
              THEN ordered_differenceLoop(a, b, ai, bi + 1, list)
              ELSE ordered_differenceLoop(a, b, ai + 1, bi + 1, list)
    ELSE list \o Slice(a, ai, Len(a))

ordered_difference(s, other) ==
    IF other.rep = "ordered"
    THEN mkOrdered(ordered_differenceLoop(s.list, other.list, 0, 0, <<>>))
    ELSE mkOrdered(SelectSeq(s.list, LAMBDA e : ~Contains(other, e)))

RECURSIVE ordered_symmetricDifferenceLoop(_, _, _, _, _)
ordered_symmetricDifferenceLoop(a, b, ai, bi, list) ==
    IF ai < Len(a) /\ bi < Len(b)
    THEN IF a[ai + 1] < b[bi + 1]
         THEN ordered_symmetricDifferenceLoop(a, b, ai + 1, bi, Append(list, a[ai + 1]))
         ELSE IF a[ai + 1] > b[bi + 1]
              THEN ordered_symmetricDifferenceLoop(a, b, ai, bi + 1, Append(list, b[bi + 1]))
              ELSE ordered_symmetricDifferenceLoop(a, b, ai + 1, bi + 1, list)
    ELSE list \o Slice(a, ai, Len(a)) \o Slice(b, bi, Len(b))

\* Mutant: the elements of other that are missing from s are left out.
ordered_symmetricDifference_Half(s, other, p) ==
    mkOrdered(SelectSeq(s.list, LAMBDA e : ~Contains(other, e)))

ordered_symmetricDifference(s, other, p) ==
    IF other.rep = "ordered"
    THEN mkOrdered(ordered_symmetricDifferenceLoop(s.list, other.list, 0, 0, <<>>))
    ELSE LET list == SelectSeq(s.list, LAMBDA e : ~Contains(other, e))
             b    == SelectSeq(Elems(other, p), LAMBDA e : ~ordered_Contains(s, e))
         IN mkOrdered(MergeSortedUniq(list, Compact(StableSort(b))))

ordered_insert(s, e) ==
    LET b == BinarySearch(s.list, e)
    IN IF b.ok THEN mkOrdered([s.list EXCEPT ![b.i + 1] = e])
       ELSE LET list == Append(s.list, e)
                slid == Copy(list, b.i + 1, Len(list), Slice(list, b.i, Len(list)))
            IN mkOrdered([slid EXCEPT ![b.i + 1] = e])

ordered_insertAll(s, unsorted) ==
    mkOrdered(MergeSortedUniq(s.list, Compact(StableSort(unsorted))))

\* The second argument of MergeSortedUniq / DeleteSortedUniq in the SortedView
\* branch of ordered.insertSet and ordered.removeSet: the operand's Elems(),
\* in the operand's own order, with adjacent equal values removed.
sortedViewElems(other, p) == Compact(Elems(other, p))

\* Mutant: the list of a natural-order operand is appended, not merged.
ordered_insertSet_Append(s, other, p) ==
    CASE other.rep = "ordered" -> mkOrdered(s.list \o other.list)
      [] other.rep = "func" -> mkOrdered(MergeSortedUniq(s.list, sortedViewElems(other, p)))
      [] OTHER -> ordered_insertAll(s, Elems(other, p))

ordered_insertSet(s, other, p) ==
    CASE other.rep = "ordered" -> mkOrdered(MergeSortedUniq(s.list, other.list))
      [] other.rep = "func" -> mkOrdered(MergeSortedUniq(s.list, sortedViewElems(other, p)))
      [] OTHER -> ordered_insertAll(s, Elems(other, p))

ordered_remove(s, e) ==
    LET b == BinarySearch(s.list, e)
    IN IF ~b.ok THEN s
       ELSE LET k    == Len(s.list) - 1
                slid == Copy(s.list, b.i, Len(s.list), Slice(s.list, b.i + 1, Len(s.list)))
            IN mkOrdered(Slice(Clear(slid, k), 0, k))

ordered_removeAll(s, unsorted) ==
    mkOrdered(DeleteSortedUniq(s.list, Compact(StableSort(unsorted))))

ordered_removeSet(s, other, p) ==
    LET elems == CASE other.rep = "ordered" -> other.list
                   [] other.rep = "func" -> sortedViewElems(other, p)
                   [] OTHER -> Compact(StableSort(Elems(other, p)))
    IN mkOrdered(DeleteSortedUniq(s.list, elems))

---------------------------------------------------------------------------
(* funcSorted: the comparator sorted set. *)

funcSorted_ContainsSet(s, other) ==
    IF SetLen(other) > Len(s.list) THEN FALSE
    ELSE IF other.rep = "func" THEN ContainsAll(s, other.list)
    ELSE IF other.rep = "table" THEN \A e \in other.tbl : funcSorted_search(s, e).ok
    ELSE \A j \in 1..Len(other.list) : funcSorted_search(s, other.list[j]).ok

funcSorted_intersection(s, other) ==
    mkFunc(s.cf, SelectSeq(s.list, LAMBDA v : Contains(other, v)))

funcSorted_difference(s, other) ==
    mkFunc(s.cf, SelectSeq(s.list, LAMBDA v : ~Contains(other, v)))

funcSorted_insert(s, e) ==
    LET r == funcSorted_search(s, e)
    IN IF r.ok THEN mkFunc(s.cf, [s.list EXCEPT ![r.i + 1] = e])
       ELSE LET list == Append(s.list, e)
                slid == Copy(list, r.i + 1, Len(list), Slice(list, r.i, Len(list)))
            IN mkFunc(s.cf, [slid EXCEPT ![r.i + 1] = e])

\* Mutant: the arguments are sorted but not deduplicated before the merge.
funcSorted_insertAll_NoUniq(s, unsorted) ==
    mkFunc(s.cf, MergeSorted(s.cf, s.list, StableSortFunc(s.cf, unsorted)))

funcSorted_insertAll(s, unsorted) ==
    mkFunc(s.cf, MergeSorted(s.cf, s.list, StableSortUniqFuncs(s.cf, unsorted)))

\* same: the operand is the receiver itself (s == other)
funcSorted_insertSet(s, other, same, p) ==
    IF same THEN s ELSE funcSorted_insertAll(s, Elems(other, p))

\* out := s.clone(); out.insertSet(other): out is a new object, never == other
funcSorted_union(s, other, p) == funcSorted_insertSet(clone(s), other, FALSE, p)

funcSorted_symmetricDifference(s, other, p) ==
    LET out   == mkFunc(s.cf, SelectSeq(s.list, LAMBDA v : ~Contains(other, v)))
        elems == SelectSeq(Elems(other, p), LAMBDA e : ~funcSorted_Contains(s, e))
    IN funcSorted_insertAll(out, elems)

funcSorted_remove(s, e) ==
    LET r == funcSorted_search(s, e)
    IN IF ~r.ok THEN s
       ELSE LET k    == Len(s.list) - 1
                slid == Copy(s.list, r.i, Len(s.list), Slice(s.list, r.i + 1, Len(s.list)))
            IN mkFunc(s.cf, Slice(Clear(slid, k), 0, k))

funcSorted_removeAll(s, unsorted) ==
    mkFunc(s.cf, DeleteSorted(s.cf, s.list, StableSortFunc(s.cf, unsorted)))

funcSorted_removeSet(s, other, same, p) ==
    IF same THEN mkFunc(s.cf, <<>>) ELSE funcSorted_removeAll(s, Elems(other, p))

---------------------------------------------------------------------------
(* table: the hash table set.  Every loop over a map or a list only adds   *)
(* or deletes keys, so the result does not depend on the iteration order.  *)

\* other.data() of a listView / tableView, as a set of keys
DataKeys(other) == IF other.rep = "table" THEN other.tbl ELSE Members(other.list)

table_ContainsSet(s, other) ==
    IF SetLen(other) > Cardinality(s.tbl) THEN FALSE
    ELSE \A e \in DataKeys(other) : e \in s.tbl

table_intersection(s, other) == mkTable({e \in DataKeys(other) : e \in s.tbl})

table_union(s, other) == mkTable(s.tbl \cup DataKeys(other))

table_difference(s, other) == mkTable({e \in s.tbl : ~Contains(other, e)})

table_symmetricDifference(s, other) ==
    IF other.rep = "table"
    THEN mkTable({e \in s.tbl : e \notin other.tbl} \cup {e \in other.tbl : e \notin s.tbl})
    ELSE mkTable({e \in Members(other.list) : e \notin s.tbl}
                 \cup {e \in s.tbl : ~Contains(other, e)})

table_Insert(s, e) == mkTable(s.tbl \cup {e})

table_InsertAll(s, elems) == mkTable(s.tbl \cup Members(elems))

table_InsertSet(s, other) == mkTable(s.tbl \cup DataKeys(other))

table_Remove(s, e) == mkTable(s.tbl \ {e})

table_RemoveAll(s, elems) == mkTable(s.tbl \ Members(elems))

table_RemoveSet(s, other) == mkTable(s.tbl \ DataKeys(other))

---------------------------------------------------------------------------
(* The public methods, dispatched on the receiver's representation.        *)
(* p is the order in which a map operand is iterated during the call.      *)

ContainsSet(s, other) ==
    CASE s.rep = "table" -> table_ContainsSet(s, other)
      [] s.rep = "ordered" -> ordered_ContainsSet(s, other)
      [] OTHER -> funcSorted_ContainsSet(s, other)

Insert(s, e) ==
    CASE s.rep = "table" -> table_Insert(s, e)
      [] s.rep = "ordered" -> ordered_insert(s, e)
      [] OTHER -> funcSorted_insert(s, e)

InsertAll(s, es) ==
    CASE s.rep = "table" -> table_InsertAll(s, es)
      [] s.rep = "ordered" -> ordered_insertAll(s, es)
      [] OTHER -> funcSorted_insertAll(s, es)

InsertSet(s, other, same, p) ==
    CASE s.rep = "table" -> table_InsertSet(s, other)
      [] s.rep = "ordered" -> ordered_insertSet(s, other, p)
      [] OTHER -> funcSorted_insertSet(s, other, same, p)

Remove(s, e) ==
    CASE s.rep = "table" -> table_Remove(s, e)
      [] s.rep = "ordered" -> ordered_remove(s, e)
      [] OTHER -> funcSorted_remove(s, e)

RemoveAll(s, es) ==
    CASE s.rep = "table" -> table_RemoveAll(s, es)
      [] s.rep = "ordered" -> ordered_removeAll(s, es)
      [] OTHER -> funcSorted_removeAll(s, es)

RemoveSet(s, other, same, p) ==
    CASE s.rep = "table" -> table_RemoveSet(s, other)
      [] s.rep = "ordered" -> ordered_removeSet(s, other, p)
      [] OTHER -> funcSorted_removeSet(s, other, same, p)

Intersection(s, other) ==
    CASE s.rep = "table" -> table_intersection(s, other)
      [] s.rep = "ordered" -> ordered_intersection(s, other)
      [] OTHER -> funcSorted_intersection(s, other)

Union(s, other, p) ==
    CASE s.rep = "table" -> table_union(s, other)
      [] s.rep = "ordered" -> ordered_union(s, other, p)
      [] OTHER -> funcSorted_union(s, other, p)

Difference(s, other) ==
    CASE s.rep = "table" -> table_difference(s, other)
      [] s.rep = "ordered" -> ordered_difference(s, other)
      [] OTHER -> funcSorted_difference(s, other)

SymmetricDifference(s, other, p) ==
    CASE s.rep = "table" -> table_symmetricDifference(s, other)
      [] s.rep = "ordered" -> ordered_symmetricDifference(s, other, p)
      [] OTHER -> funcSorted_symmetricDifference(s, other, p)

Clone(s) == clone(s)

---------------------------------------------------------------------------
(* The single-element operations applied one at a time, in order. *)

RECURSIVE InsertEach(_, _)
InsertEach(s, es) ==
    IF es = <<>> THEN s ELSE InsertEach(Insert(s, es[1]), Tail(es))

RECURSIVE RemoveEach(_, _)
RemoveEach(s, es) ==
    IF es = <<>> THEN s ELSE RemoveEach(Remove(s, es[1]), Tail(es))

---------------------------------------------------------------------------
(* The state machine: a caller holds a mutable set A and a second set B.   *)
(* A is the receiver of every call; the operand is B or A itself.  The     *)
(* caller may replace B by a newly constructed set at any time.            *)

VARIABLES
    sets,   \* handle -> the set it refers to
    last,   \* the last call: method name, receiver handle, operand handle
    out,    \* what the last call returned (a set and/or a boolean)
    ref     \* what the documented equivalent of the last call yields

\* A constructor call on its own (specification SpecNew).
VARIABLES
    args,   \* the elements given to the constructor
    made    \* the set the constructor returned

\* Sets as they lie in memory (specification SpecMem).
VARIABLES
    heap,   \* backing array / map identity -> its contents
    objs    \* handle -> the set object it refers to

\* A call of a function of package slicesx, or of Range, on its own
\* (specification SpecFn).
VARIABLES
    fn      \* the call: function name, comparator, arguments, result and
            \* the backing array of the first argument after the call

callvars == <<sets, last, out, ref>>
newvars == <<args, made>>
memvars == <<heap, objs>>
fnvars == <<fn>>

vars == <<sets, last, out, ref, args, made, heap, objs, fn>>

Handles == {"A", "B"}

\* Argument lists.
Lists == UNION {[1..n -> Elem] : n \in 0..MaxArgs}

Ascending == [j \in 1..(MaxElem + 1) |-> j - 1]

\* The iteration orders a call can observe on its operand: only a funcSorted
\* receiver keeps the order of a map operand's Elems(), every other receiver
\* sorts them or adds and deletes keys one by one.  The call itself iterates
\* in order p, its documented equivalent (a separate call) in order q.
Orders(s, o) == IF o.rep = "table" /\ s.rep = "func" THEN Perms(o.tbl) ELSE {Ascending}

Res(set, ok) == [set |-> set, ok |-> ok]
NoRes == Res(mkTable({}), TRUE)

Bounded(s) == SetLen(s) <= MaxLen

\* NewMutable / NewSortedMutable / NewSortedMutableFunc / NewSortedMutableFuncs
Constructed ==
    {newTable(L) : L \in Lists} \cup {order(L) : L \in Lists}
        \cup {funcSort(c, L) : c \in Cmps, L \in Lists}

\* The variables of the other specifications, at rest.
NoSet == [kind |-> "none", set |-> mkTable({})]
NewIdle == args = <<>> /\ made = NoSet
MemIdle == heap = <<>> /\ objs = <<>>
NoFn == [op |-> "None", cf |-> "nat", a |-> <<>>, b |-> <<>>, res |-> <<>>, arr |-> <<>>]
FnIdle == fn = NoFn

Init ==
    /\ sets \in [Handles -> Constructed]
    /\ last = [op |-> "New", recv |-> "A", arg |-> "B"]
    /\ out = NoRes
    /\ ref = NoRes
    /\ NewIdle
    /\ MemIdle
    /\ FnIdle

Call(op, r, o) == [op |-> op, recv |-> r, arg |-> o]

\* The caller constructs a new set and keeps it in handle r.
DoNew(r, s) ==
    /\ sets' = [sets EXCEPT ![r] = s]
    /\ last' = Call("New", "A", "B")
    /\ out' = NoRes
    /\ ref' = NoRes
    /\ UNCHANGED <<newvars, memvars, fnvars>>

DoInsert(r, e) ==
    LET s == Insert(sets[r], e)
    IN /\ Bounded(s)
       /\ sets' = [sets EXCEPT ![r] = s]
       /\ last' = Call("Insert", r, r)
       /\ out' = NoRes
       /\ ref' = NoRes
       /\ UNCHANGED <<newvars, memvars, fnvars>>

DoInsertAll(r, es) ==
    LET s == InsertAll(sets[r], es)
    IN /\ Bounded(s)
       /\ sets' = [sets EXCEPT ![r] = s]
       /\ last' = Call("InsertAll", r, r)
       /\ out' = NoRes
       /\ ref' = Res(InsertEach(sets[r], es), TRUE)
       /\ UNCHANGED <<newvars, memvars, fnvars>>

DoInsertSet(r, o, p, q) ==
    LET s == InsertSet(sets[r], sets[o], r = o, p)
    IN /\ Bounded(s)
       /\ sets' = [sets EXCEPT ![r] = s]
       /\ last' = Call("InsertSet", r, o)
       /\ out' = NoRes
       /\ ref' = Res(InsertEach(sets[r], Elems(sets[o], q)), TRUE)
       /\ UNCHANGED <<newvars, memvars, fnvars>>

DoRemove(r, e) ==
    /\ sets' = [sets EXCEPT ![r] = Remove(sets[r], e)]
    /\ last' = Call("Remove", r, r)
    /\ out' = NoRes
    /\ ref' = NoRes
    /\ UNCHANGED <<newvars, memvars, fnvars>>

DoRemoveAll(r, es) ==
    /\ sets' = [sets EXCEPT ![r] = RemoveAll(sets[r], es)]
    /\ last' = Call("RemoveAll", r, r)
    /\ out' = NoRes
    /\ ref' = Res(RemoveEach(sets[r], es), TRUE)
    /\ UNCHANGED <<newvars, memvars, fnvars>>

DoRemoveSet(r, o, p, q) ==
    /\ sets' = [sets EXCEPT ![r] = RemoveSet(sets[r], sets[o], r = o, p)]
    /\ last' = Call("RemoveSet", r, o)
    /\ out' = NoRes
    /\ ref' = Res(RemoveAll(sets[r], Elems(sets[o], q)), TRUE)
    /\ UNCHANGED <<newvars, memvars, fnvars>>

DoContainsSet(r, o, p) ==
    /\ out' = Res(mkTable({}), ContainsSet(sets[r], sets[o]))
    /\ ref' = Res(mkTable({}), ContainsAll(sets[r], Elems(sets[o], p)))
    /\ last' = Call("ContainsSet", r, o)
    /\ UNCHANGED sets
    /\ UNCHANGED <<newvars, memvars, fnvars>>

DoIntersection(r, o) ==
    /\ out' = Res(Intersection(sets[r], sets[o]), TRUE)
    /\ ref' = NoRes
    /\ last' = Call("Intersection", r, o)
    /\ UNCHANGED sets
    /\ UNCHANGED <<newvars, memvars, fnvars>>

DoUnion(r, o, p, q) ==
    /\ out' = Res(Union(sets[r], sets[o], p), TRUE)
    /\ ref' = Res(InsertSet(Clone(sets[r]), sets[o], FALSE, q), TRUE)
    /\ last' = Call("Union", r, o)
    /\ UNCHANGED sets
    /\ UNCHANGED <<newvars, memvars, fnvars>>

DoDifference(r, o, p, q) ==
    /\ out' = Res(Difference(sets[r], sets[o]), TRUE)
    /\ ref' = Res(RemoveSet(Clone(sets[r]), sets[o], FALSE, q), TRUE)
    /\ last' = Call("Difference", r, o)
    /\ UNCHANGED sets
    /\ UNCHANGED <<newvars, memvars, fnvars>>

DoSymmetricDifference(r, o, p, q) ==
    /\ out' = Res(SymmetricDifference(sets[r], sets[o], p), TRUE)
    /\ ref' = Res(Union(Difference(sets[r], sets[o]), Difference(sets[o], sets[r]), q), TRUE)
    /\ last' = Call("SymmetricDifference", r, o)
    /\ UNCHANGED sets
    /\ UNCHANGED <<newvars, memvars, fnvars>>

\* r.Range(fn), fn returning false on its k-th call
DoRange(r, p, k) ==
    /\ out' = [set |-> mkTable({}), ok |-> TRUE, calls |-> Range(sets[r], p, k), k |-> k]
    /\ ref' = NoRes
    /\ last' = Call("Range", r, r)
    /\ UNCHANGED sets
    /\ UNCHANGED <<newvars, memvars, fnvars>>

DoClone(r) ==
    /\ out' = Res(Clone(sets[r]), TRUE)
    /\ ref' = NoRes
    /\ last' = Call("Clone", r, r)
    /\ UNCHANGED sets
    /\ UNCHANGED <<newvars, memvars, fnvars>>

\* The caller keeps the set returned by the last algebra or copy call in handle r.
Adopt(r) ==
    /\ last.op \in {"Intersection", "Union", "Difference", "SymmetricDifference", "Clone"}
    /\ Bounded(out.set)
    /\ sets' = [sets EXCEPT ![r] = out.set]
    /\ last' = Call("Adopt", r, r)
    /\ out' = NoRes
    /\ ref' = NoRes
    /\ UNCHANGED <<newvars, memvars, fnvars>>

Next ==
    \/ \E s \in Constructed : DoNew("B", s)
    \/ \E e \in Elem : DoInsert("A", e)
    \/ \E es \in Lists : DoInsertAll("A", es)
    \/ \E o \in Handles : \E p, q \in Orders(sets["A"], sets[o]) : DoInsertSet("A", o, p, q)
    \/ \E e \in Elem : DoRemove("A", e)
    \/ \E es \in Lists : DoRemoveAll("A", es)
    \/ \E o \in Handles : \E p, q \in Orders(sets["A"], sets[o]) : DoRemoveSet("A", o, p, q)
    \/ \E o \in Handles : \E p \in Orders(sets["A"], sets[o]) : DoContainsSet("A", o, p)
    \/ \E o \in Handles : DoIntersection("A", o)
    \/ \E o \in Handles : \E p, q \in Orders(sets["A"], sets[o]) : DoUnion("A", o, p, q)
    \/ \E o \in Handles : \E p, q \in Orders(sets["A"], sets[o]) : DoDifference("A", o, p, q)
    \/ \E o \in Handles : \E p, q \in Orders(sets["A"], sets[o]) : DoSymmetricDifference("A", o, p, q)
    \/ \E p \in Orders(sets["A"], sets["A"]) : \E k \in 0..MaxLen : DoRange("A", p, k)
    \/ DoClone("A")
    \/ Adopt("A")

Spec == Init /\ [][Next]_vars

---------------------------------------------------------------------------
(* Construction of a sorted set from a list of elements, on its own, with  *)
(* longer argument lists.                                                  *)

\* Longest list given to a constructor.
MaxNew == 4

NewLists == UNION {[1..n -> Elem] : n \in 0..MaxNew}

\* The kinds of sorted set: natural order, or one of the comparators.
SortedKinds == {"ordered"} \cup Cmps

\* NewSortedMutable(elems...) / NewSortedMutableFuncs(cmp, eq, elems...)
NewSorted(k, elems) == IF k = "ordered" THEN order(elems) ELSE funcSort(k, elems)

InitNew ==
    /\ args \in NewLists
    /\ made = NoSet
    /\ sets = [h \in Handles |-> mkTable({})]
    /\ last = [op |-> "None", recv |-> "A", arg |-> "B"]
    /\ out = NoRes
    /\ ref = NoRes
    /\ MemIdle
    /\ FnIdle

Construct(k) ==
    /\ made.kind = "none"
    /\ made' = [kind |-> k, set |-> NewSorted(k, args)]
    /\ UNCHANGED <<args, callvars, memvars, fnvars>>

\* The caller drops the set and picks the next argument list.
Discard(L) ==
    /\ made.kind # "none"
    /\ args' = L
    /\ made' = NoSet
    /\ UNCHANGED <<callvars, memvars, fnvars>>

NextNew ==
    \/ \E k \in SortedKinds : Construct(k)
    \/ \E L \in NewLists : Discard(L)

SpecNew == InitNew /\ [][NextNew]_vars

---------------------------------------------------------------------------
(* Longer lists over more elements: a natural-order set A, empty at first, *)
(* receives the elements of a parity-ordered comparator set B with         *)
(* InsertSet and is then the receiver of single-element Insert calls.      *)

\* Largest element value of the longer lists.
MaxWide == 5
\* Number of elements B is constructed from.
WideLen == 5

WideElem == 0..MaxWide

InitWide ==
    /\ \E L \in [1..WideLen -> WideElem] :
           sets = [h \in Handles |-> IF h = "A" THEN order(<<>>) ELSE funcSort("par", L)]
    /\ last = [op |-> "New", recv |-> "A", arg |-> "B"]
    /\ out = NoRes
    /\ ref = NoRes
    /\ NewIdle
    /\ MemIdle
    /\ FnIdle

WideInsertSet ==
    /\ last.op = "New"
    /\ sets' = [sets EXCEPT !["A"] = InsertSet(sets["A"], sets["B"], FALSE, Ascending)]
    /\ last' = Call("InsertSet", "A", "B")
    /\ out' = NoRes
    /\ ref' = NoRes
    /\ UNCHANGED <<newvars, memvars, fnvars>>

WideInsert(e) ==
    LET s == Insert(sets["A"], e)
    IN /\ SetLen(s) <= WideLen + 1
       /\ sets' = [sets EXCEPT !["A"] = s]
       /\ last' = Call("Insert", "A", "A")
       /\ out' = NoRes
       /\ ref' = NoRes
       /\ UNCHANGED <<newvars, memvars, fnvars>>

NextWide ==
    \/ WideInsertSet
    \/ \E e \in WideElem : WideInsert(e)

SpecWide == InitWide /\ [][NextWide]_vars

---------------------------------------------------------------------------
(* Sets as they lie in memory.  A set object has a concrete type (one of   *)
(* the wrapper structs), a comparator, and a slice header (arr, len) into  *)
(* a backing array; the array's contents, as long as its capacity, are in  *)
(* heap.  A table's map is a heap entry as well: the ascending sequence of *)
(* its keys.  A caller holds a set S and a second object C: a set it       *)
(* constructed, a copy or an algebra result, or a list got from Elems().   *)

\* Most unused slots a newly allocated array has beyond its elements.
MaxSpare == 0

\* Largest element value, and longest list (of a set, or given to a call),
\* of the sets kept in memory.
MaxMemElem == 1
MaxMemLen == 2

MemElem == 0..MaxMemElem
MemLists == UNION {[1..n -> MemElem] : n \in 0..MaxMemLen}

MemHandles == {"S", "C"}

\* The comparator of the comparator sets kept in memory.
MemCmps == {"desc"}

\* The concrete set types.
ConstTypes == {"constSorted", "constOrdered", "constFuncSorted", "constFuncOrdered", "constTable"}
VarTypes == {"varSorted", "varOrdered", "varFuncSorted", "varFuncOrdered", "varTable"}
SetTypes == ConstTypes \cup VarTypes
\* What the New... constructors return.
NewTypes == {"constSorted", "varSorted", "constFuncSorted", "varFuncSorted", "constTable", "varTable"}

\* The embedded representation of a concrete type.
RepOf(typ) ==
    CASE typ \in {"constTable", "varTable"} -> "table"
      [] typ \in {"constSorted", "constOrdered", "varSorted", "varOrdered"} -> "ordered"
      [] OTHER -> "func"

\* Mutant: an immutable comparator set wraps its result as a mutable one.
AlgebraType_Mutable(typ) ==
    CASE typ = "constFuncSorted" -> "varFuncSorted"
      [] typ = "constFuncOrdered" -> "varFuncOrdered"
      [] OTHER -> typ

\* What Intersection, Union, Difference and SymmetricDifference of a
\* receiver of concrete type typ wrap their result in.
AlgebraType(typ) ==
    CASE typ = "constSorted" -> "constSorted"
      [] typ = "constOrdered" -> "constOrdered"
      [] typ = "varSorted" -> "varSorted"
      [] typ = "varOrdered" -> "varOrdered"
      [] typ = "constFuncSorted" -> "constFuncSorted"
      [] typ = "constFuncOrdered" -> "constFuncOrdered"
      [] typ = "varFuncSorted" -> "varFuncSorted"
      [] typ = "varFuncOrdered" -> "varFuncOrdered"
      [] typ = "constTable" -> "constTable"
      [] OTHER -> "varTable"

\* The copy methods each concrete type has, and the type of what they return.
CopyMethods == {"Clone", "MutableCopy", "ImmutableCopy"}

CopyTypes ==
    [constSorted      |-> [MutableCopy |-> "varSorted", ImmutableCopy |-> "varOrdered"],
     constOrdered     |-> [MutableCopy |-> "varOrdered"],
     varSorted        |-> [ImmutableCopy |-> "constSorted", Clone |-> "varSorted"],
     varOrdered       |-> [ImmutableCopy |-> "constOrdered", Clone |-> "varOrdered"],
     constFuncSorted  |-> [MutableCopy |-> "varFuncSorted"],
     constFuncOrdered |-> [MutableCopy |-> "varFuncOrdered"],
     varFuncSorted    |-> [ImmutableCopy |-> "constFuncSorted", Clone |-> "varFuncSorted"],
     varFuncOrdered   |-> [ImmutableCopy |-> "constFuncOrdered", Clone |-> "varFuncOrdered"],
     constTable       |-> [MutableCopy |-> "varTable"],
     varTable         |-> [ImmutableCopy |-> "constTable", Clone |-> "varTable"]]

HasCopy(typ, t) == t \in DOMAIN CopyTypes[typ]

\* The sorted types, which have Mutable() / Immutable(), and the type the
\* pointer is converted to.
ViewTypes ==
    [constSorted     |-> "constOrdered",
     varSorted       |-> "varOrdered",
     constFuncSorted |-> "constFuncOrdered",
     varFuncSorted   |-> "varFuncOrdered"]

Zeros(n) == [j \in 1..n |-> Zero]

Max(a, b) == IF a >= b THEN a ELSE b

\* An object; an Elems() result is an object of type "list".  same tells
\* that the handle points at the very struct the handle S points at (it was
\* got from S.Mutable() / S.Immutable()): one list header, two handles.
Obj(typ, c, arr, len) == [typ |-> typ, cf |-> c, arr |-> arr, len |-> len, same |-> FALSE]
NoObj == Obj("none", "nat", 0, 0)

IsSet(o) == o.typ \in SetTypes

\* The elements seen through object o in heap hp: the first len slots of its
\* array, or the keys of its map.
Visible(hp, o) ==
    IF o.typ = "none" THEN <<>>
    ELSE IF IsSet(o) /\ RepOf(o.typ) = "table" THEN hp[o.arr]
    ELSE SubSeq(hp[o.arr], 1, o.len)

\* The set value the algorithms work on.
ValueOf(hp, o) ==
    CASE RepOf(o.typ) = "table" -> mkTable(Members(hp[o.arr]))
      [] RepOf(o.typ) = "ordered" -> mkOrdered(Visible(hp, o))
      [] OTHER -> mkFunc(o.cf, Visible(hp, o))

\* The keys of a map / the elements of a list, as the heap holds them.
RECURSIVE AscendingSeq(_)
AscendingSeq(S) ==
    IF S = {} THEN <<>>
    ELSE LET m == CHOOSE x \in S : \A y \in S : x <= y
         IN <<m>> \o AscendingSeq(S \ {m})

Stored(v) == IF v.rep = "table" THEN AscendingSeq(v.tbl) ELSE v.list

(* Where results are stored. *)

\* Array identities: S's array is 1, C's is 2 (1 if it is S's), and 3 is the
\* array a call allocates before the caller drops what it no longer holds.
ArrIds == 1..3
Fresh == 3

\* A newly allocated array holding list v: slices.Clone, append onto a nil
\* slice, make.
NewArray(v, spare) == v \o Zeros(spare)

\* The array old, whose first n slots were in use, after the list was
\* rewritten in place to v: slots given up are cleared, slots beyond are kept.
WrittenInPlace(old, n, v) ==
    v \o Zeros(Max(n - Len(v), 0)) \o SubSeq(old, Max(n, Len(v)) + 1, Len(old))

\* insert: list[i] = e, or append(list, e), which reuses the array if it has
\* a free slot.
AppendFits(old, n, v) == Len(v) <= Len(old)

\* insertInto: slices.Grow(a, k) with k = len(a) + extra = len(v) reuses the
\* array if cap(a) - len(a) >= k.
GrowFits(old, n, v) == Len(old) - n >= Len(v)

\* remove, deleteFrom: elements slide left inside the array.
ShrinkFits(old, n, v) == TRUE

\* Mutant: the copy is built on the receiver's own array.
cloneArr_Shared(o, fresh) == o.arr

\* ordered.clone / funcSorted.clone / table.clone: slices.Clone, maps.Clone.
cloneArr(o, fresh) == fresh

\* Mutant: the copy takes every slot of the array, used or not.
cloneElems_WholeArray(hp, o) == hp[o.arr]

\* What slices.Clone(s.list) / maps.Clone(s.data) copies: the elements in use.
cloneElems(hp, o) == Visible(hp, o)

\* Mutant: Elems() hands out the set's own array.
ElemsArr_Shared(o, fresh) == o.arr

\* ordered.Elems / funcSorted.Elems / table.Elems: slices.Clone, maps.Keys.
ElemsArr(o, fresh) == fresh

\* Mutant: the result is handed out on the receiver's array.
resultArr_Receiver(s, other, fresh) == s.arr

\* intersection, union, difference, symmetricDifference: the result list is
\* appended onto a nil slice, merged into other.Elems() or into a clone; the
\* result map is made or cloned.
resultArr(s, other, fresh) == fresh

\* The caller's objects once what it no longer holds is dropped: arrays are
\* renamed so that S's is 1 and C's is 2.
TidyObjs(ob) ==
    [h \in MemHandles |->
        IF h = "S" THEN [ob[h] EXCEPT !.arr = 1]
        ELSE [ob[h] EXCEPT !.arr = IF ob[h].arr = 0 THEN 0
                                   ELSE IF ob[h].arr = ob["S"].arr THEN 1 ELSE 2]]

TidyHeap(hp, ob) ==
    [a \in ArrIds |->
        IF a = 1 THEN hp[ob["S"].arr]
        ELSE IF a = 2 /\ ob["C"].arr # 0 /\ ob["C"].arr # ob["S"].arr THEN hp[ob["C"].arr]
        ELSE <<>>]

\* Handle r's set becomes v; fits tells whether v is written into r's array.
Stores(r, v, fits, spare) ==
    LET o   == objs[r]
        tab == RepOf(o.typ) = "table"
        a   == IF tab \/ fits THEN o.arr ELSE Fresh
        hp  == [heap EXCEPT ![a] =
                   IF tab THEN Stored(v)
                   ELSE IF fits THEN WrittenInPlace(heap[o.arr], o.len, Stored(v))
                   ELSE NewArray(Stored(v), spare)]
        n   == IF tab THEN 0 ELSE Len(Stored(v))
        ob  == [h \in MemHandles |->
                   IF h = r \/ objs["C"].same
                   THEN [objs[h] EXCEPT !.arr = a, !.len = n]
                   ELSE objs[h]]
    IN /\ SetLen(v) <= MaxMemLen
       /\ heap' = TidyHeap(hp, ob)
       /\ objs' = TidyObjs(ob)

\* C becomes a new object of the given type holding list v in array a.
Gets(typ, c, v, a, spare) ==
    LET hp == IF a = Fresh
              THEN [heap EXCEPT ![Fresh] = NewArray(v, IF RepOf(typ) = "table" THEN 0 ELSE spare)]
              ELSE heap
        ob == [objs EXCEPT !["C"] = Obj(typ, c, a, IF RepOf(typ) = "table" THEN 0 ELSE Len(v))]
    IN /\ Len(v) <= MaxMemLen
       /\ heap' = TidyHeap(hp, ob)
       /\ objs' = TidyObjs(ob)

\* Spare slots are a matter of lists only.
Spares(typ) == IF RepOf(typ) = "table" THEN {0} ELSE 0..MaxSpare

(* The calls. *)

\* The comparators a set of concrete type typ can be built with.
CmpsOf(typ) == IF RepOf(typ) = "func" THEN MemCmps ELSE {"nat"}

\* newTable / order / funcSort
Built(typ, c, elems) ==
    CASE RepOf(typ) = "table" -> newTable(elems)
      [] RepOf(typ) = "ordered" -> order(elems)
      [] OTHER -> funcSort(c, elems)

Receiver(r) == IsSet(objs[r])
Mutable(r) == objs[r].typ \in VarTypes
Val(h) == ValueOf(heap, objs[h])
\* Handles r and o point at one struct.
SameObj(r, o) == r = o \/ objs["C"].same

MemRest == UNCHANGED <<sets, out, ref, newvars, fnvars>>

\* The kind of call the caller made last.
Did(kind) == [op |-> kind]

InitMem ==
    /\ \E typ \in NewTypes : \E c \in CmpsOf(typ) : \E L \in MemLists : \E spare \in Spares(typ) :
          LET v == Stored(Built(typ, c, L))
          IN /\ heap = [a \in ArrIds |-> IF a = 1 THEN NewArray(v, spare) ELSE <<>>]
             /\ objs = [h \in MemHandles |->
                          IF h = "S"
                          THEN Obj(typ, c, 1, IF RepOf(typ) = "table" THEN 0 ELSE Len(v))
                          ELSE NoObj]
    /\ sets = [h \in Handles |-> mkTable({})]
    /\ last = Did("New")
    /\ out = NoRes
    /\ ref = NoRes
    /\ NewIdle
    /\ FnIdle

\* C := a newly constructed set.
MemNew(typ, c, L, spare) ==
    /\ Gets(typ, c, Stored(Built(typ, c, L)), Fresh, spare)
    /\ last' = Did("New")
    /\ MemRest

MemInsert(r, e, spare) ==
    LET v == Insert(Val(r), e)
    IN /\ Receiver(r) /\ Mutable(r)
       /\ Stores(r, v, AppendFits(heap[objs[r].arr], objs[r].len, Stored(v)), spare)
       /\ last' = Did("Mutate")
       /\ MemRest

MemInsertAll(r, es, spare) ==
    LET v == InsertAll(Val(r), es)
    IN /\ Receiver(r) /\ Mutable(r)
       /\ Stores(r, v, GrowFits(heap[objs[r].arr], objs[r].len, Stored(v)), spare)
       /\ last' = Did("Mutate")
       /\ MemRest

MemInsertSet(r, o, p, spare) ==
    LET v == InsertSet(Val(r), Val(o), SameObj(r, o), p)
    IN /\ Receiver(r) /\ Mutable(r) /\ Receiver(o)
       /\ Stores(r, v,
                 IF RepOf(objs[r].typ) = "func" /\ SameObj(r, o) THEN TRUE
                 ELSE GrowFits(heap[objs[r].arr], objs[r].len, Stored(v)), spare)
       /\ last' = Did("Mutate")
       /\ MemRest

MemRemove(r, e) ==
    LET v == Remove(Val(r), e)
    IN /\ Receiver(r) /\ Mutable(r)
       /\ Stores(r, v, ShrinkFits(heap[objs[r].arr], objs[r].len, Stored(v)), 0)
       /\ last' = Did("Mutate")
       /\ MemRest

MemRemoveAll(r, es) ==
    LET v == RemoveAll(Val(r), es)
    IN /\ Receiver(r) /\ Mutable(r)
       /\ Stores(r, v, ShrinkFits(heap[objs[r].arr], objs[r].len, Stored(v)), 0)
       /\ last' = Did("Mutate")
       /\ MemRest

MemRemoveSet(r, o, p) ==
    LET v == RemoveSet(Val(r), Val(o), SameObj(r, o), p)
    IN /\ Receiver(r) /\ Mutable(r) /\ Receiver(o)
       /\ Stores(r, v, ShrinkFits(heap[objs[r].arr], objs[r].len, Stored(v)), 0)
       /\ last' = Did("Mutate")
       /\ MemRest

AlgebraOps == {"Intersection", "Union", "Difference", "SymmetricDifference"}

AlgebraOf(op, s, other, p) ==
    CASE op = "Intersection" -> Intersection(s, other)
      [] op = "Union" -> Union(s, other, p)
      [] op = "Difference" -> Difference(s, other)
      [] OTHER -> SymmetricDifference(s, other, p)

\* C := r.Intersection(o) / r.Union(o) / r.Difference(o) / r.SymmetricDifference(o)
MemAlgebra(op, r, o, p, spare) ==
    /\ Receiver(r) /\ Receiver(o)
    /\ Gets(AlgebraType(objs[r].typ), objs[r].cf, Stored(AlgebraOf(op, Val(r), Val(o), p)),
            resultArr(objs[r], objs[o], Fresh), spare)
    /\ last' = Did("Algebra")
    /\ MemRest

\* C := r.Clone() / r.MutableCopy() / r.ImmutableCopy()
MemCopy(t, r, spare) ==
    /\ Receiver(r) /\ HasCopy(objs[r].typ, t)
    /\ Gets(CopyTypes[objs[r].typ][t], objs[r].cf, cloneElems(heap, objs[r]),
            cloneArr(objs[r], Fresh), spare)
    /\ last' = Did("Copy")
    /\ MemRest

\* C := r.ImmutableCopy().MutableCopy()
MemRoundTrip(r, spare) ==
    /\ Receiver(r) /\ HasCopy(objs[r].typ, "ImmutableCopy")
    /\ LET o   == objs[r]
           mid == Obj(CopyTypes[o.typ]["ImmutableCopy"], o.cf, cloneArr(o, Fresh), o.len)
       IN /\ HasCopy(mid.typ, "MutableCopy")
          /\ Gets(CopyTypes[mid.typ]["MutableCopy"], o.cf, cloneElems(heap, o),
                  cloneArr(mid, Fresh), spare)
    /\ last' = Did("RoundTrip")
    /\ MemRest

\* C := r.Mutable() / r.Immutable(): the pointer r converted to the type
\* without the sorted interface.
MemView(r) ==
    /\ Receiver(r) /\ objs[r].typ \in DOMAIN ViewTypes
    /\ LET ob == [objs EXCEPT !["C"] = [objs[r] EXCEPT !.typ = ViewTypes[objs[r].typ],
                                                       !.same = (r = "S")]]
       IN /\ heap' = TidyHeap(heap, ob)
          /\ objs' = TidyObjs(ob)
    /\ last' = Did("View")
    /\ MemRest

\* The orders Elems() can list the set of handle r in.
ElemsOrders(r) == IF Val(r).rep = "table" THEN Perms(Val(r).tbl) ELSE {Ascending}

\* C := r.Elems()
MemElems(r, p, spare) ==
    /\ Receiver(r)
    /\ Gets("list", "nat", Elems(Val(r), p), ElemsArr(objs[r], Fresh), spare)
    /\ last' = Did("Elems")
    /\ MemRest

\* The caller writes e into slot i of the list it got from Elems().
MemWrite(i, e) ==
    /\ objs["C"].typ = "list"
    /\ i \in 1..objs["C"].len
    /\ heap' = [heap EXCEPT ![objs["C"].arr][i] = e]
    /\ last' = Did("Write")
    /\ UNCHANGED objs
    /\ MemRest

\* r.ContainsSet(o), like every query, writes nothing.
MemContainsSet(r, o) ==
    /\ Receiver(r) /\ Receiver(o)
    /\ last' = Did("Query")
    /\ UNCHANGED memvars
    /\ MemRest

MemNext ==
    \/ \E typ \in NewTypes : \E c \in CmpsOf(typ) : \E L \in MemLists : \E spare \in Spares(typ) :
          MemNew(typ, c, L, spare)
    \/ \E r \in MemHandles : \E e \in MemElem : \E spare \in 0..MaxSpare : MemInsert(r, e, spare)
    \/ \E r \in MemHandles : \E es \in MemLists : \E spare \in 0..MaxSpare : MemInsertAll(r, es, spare)
    \/ \E r, o \in MemHandles : \E spare \in 0..MaxSpare :
          \E p \in (IF Receiver(r) /\ Receiver(o) THEN Orders(Val(r), Val(o)) ELSE {}) :
             MemInsertSet(r, o, p, spare)
    \/ \E r \in MemHandles : \E e \in MemElem : MemRemove(r, e)
    \/ \E r \in MemHandles : \E es \in MemLists : MemRemoveAll(r, es)
    \/ \E r, o \in MemHandles :
          \E p \in (IF Receiver(r) /\ Receiver(o) THEN Orders(Val(r), Val(o)) ELSE {}) :
             MemRemoveSet(r, o, p)
    \/ \E op \in AlgebraOps : \E r, o \in MemHandles : \E spare \in 0..MaxSpare :
          \E p \in (IF Receiver(r) /\ Receiver(o) THEN Orders(Val(r), Val(o)) ELSE {}) :
             MemAlgebra(op, r, o, p, spare)
    \/ \E t \in CopyMethods : \E r \in MemHandles : \E spare \in 0..MaxSpare : MemCopy(t, r, spare)
    \/ \E r \in MemHandles : \E spare \in 0..MaxSpare : MemRoundTrip(r, spare)
    \/ \E r \in MemHandles : \E spare \in 0..MaxSpare :
          \E p \in (IF Receiver(r) THEN ElemsOrders(r) ELSE {}) : MemElems(r, p, spare)
    \/ \E i \in 1..MaxMemLen : \E e \in MemElem : MemWrite(i, e)
    \/ \E r, o \in MemHandles : MemContainsSet(r, o)
    \/ \E r \in MemHandles : MemView(r)

SpecMem == InitMem /\ [][MemNext]_vars

---------------------------------------------------------------------------
(* The functions of internal/slicesx called on their own: the caller hands *)
(* any two lists, in order or not, and any comparator pair, consistent or  *)
(* not.  The natural-order functions are called with comparator "nat".     *)

GoodCmps == {"nat", "run"} \cup Cmps
FnCmps == GoodCmps \cup BadCmps
FnLists == UNION {[1..n -> Elem] : n \in 0..MaxLen}

Fn(op, res, arr) == [fn EXCEPT !.op = op, !.res = res, !.arr = arr]
FnRest == UNCHANGED <<callvars, newvars, memvars>>

InitFn ==
    /\ fn \in [op : {"None"}, cf : FnCmps, a : FnLists, b : Lists, res : {<<>>}, arr : {<<>>}]
    /\ sets = [h \in Handles |-> mkTable({})]
    /\ last = [op |-> "None", recv |-> "A", arg |-> "B"]
    /\ out = NoRes
    /\ ref = NoRes
    /\ NewIdle
    /\ MemIdle

FnMergeSortedUniq ==
    /\ fn.op = "None" /\ fn.cf = "nat"
    /\ fn' = Fn("MergeSortedUniq", MergeSortedUniq(fn.a, fn.b), MergeSortedUniq(fn.a, fn.b))
    /\ FnRest

FnMergeSorted ==
    /\ fn.op = "None" /\ fn.cf # "nat"
    /\ fn' = Fn("MergeSorted", MergeSorted(fn.cf, fn.a, fn.b), MergeSorted(fn.cf, fn.a, fn.b))
    /\ FnRest

FnDeleteSortedUniq ==
    /\ fn.op = "None" /\ fn.cf = "nat"
    /\ fn' = Fn("DeleteSortedUniq", DeleteSortedUniq(fn.a, fn.b),
                deleteFromArray(fn.a, DeleteSortedUniqLoop(fn.a, fn.b, 0, 0, <<>>)))
    /\ FnRest

FnDeleteSorted ==
    /\ fn.op = "None" /\ fn.cf # "nat"
    /\ fn' = Fn("DeleteSorted", DeleteSorted(fn.cf, fn.a, fn.b),
                deleteFromArray(fn.a, DeleteSortedLoop(fn.cf, fn.a, fn.b, 0, 0, <<>>)))
    /\ FnRest

FnStableSortUniqFuncs ==
    /\ fn.op = "None" /\ fn.cf # "nat"
    /\ fn' = Fn("StableSortUniqFuncs", StableSortUniqFuncs(fn.cf, fn.a),
                StableSortUniqFuncs(fn.cf, fn.a))
    /\ FnRest

NextFn ==
    \/ FnMergeSortedUniq
    \/ FnMergeSorted
    \/ FnDeleteSortedUniq
    \/ FnDeleteSorted
    \/ FnStableSortUniqFuncs

SpecFn == InitFn /\ [][NextFn]_vars

---------------------------------------------------------------------------
(* Properties. *)

\* list is non-decreasing by the order key of comparator c
IsSorted(c, list) ==
    \A j \in 1..(Len(list) - 1) : cmp(c, list[j], list[j + 1]) <= 0

\* no two elements of list have the same identity under comparator c
IdentityUnique(c, list) ==
    \A i \in 1..Len(list) : \A j \in (i + 1)..Len(list) : ~eq(c, list[i], list[j])

\* list holds two neighbours with equal order key and distinct identity
HasRun(c, list) ==
    \E j \in 1..(Len(list) - 1) :
        cmp(c, list[j], list[j + 1]) = 0 /\ ~eq(c, list[j], list[j + 1])

ReturnsSet == last.op \in {"Intersection", "Union", "Difference", "SymmetricDifference", "Clone"}

\* Every set the caller can reach in the current state.
LiveSets == {sets[h] : h \in Handles} \cup (IF ReturnsSet THEN {out.set} ELSE {})

\* x and y are the same set in the receiver's identity notion: same
\* representation, same Len(), every element of one Elems() has an element
\* of equal identity in the other, same Contains results.
SameSet(x, y) ==
    /\ x.rep = y.rep /\ x.cf = y.cf
    /\ SetLen(x) = SetLen(y)
    /\ \A a \in Members(Elems(x, Ascending)) :
           \E b \in Members(Elems(y, Ascending)) : eq(x.cf, a, b)
    /\ \A b \in Members(Elems(y, Ascending)) :
           \E a \in Members(Elems(x, Ascending)) : eq(x.cf, a, b)
    /\ \A e \in Elem : Contains(x, e) = Contains(y, e)

\* The result x of the last call and its documented equivalent y are the same
\* set, and have exactly the same Elems() unless the receiver is a comparator
\* set and the operand a hash set: the two are then computed from two
\* iterations of a map, whose order decides the stored value of an identity
\* and the position of an element inside its run.
SameResult(x, y) ==
    /\ SameSet(x, y)
    /\ (sets[last.recv].rep # "func" \/ sets[last.arg].rep # "table") => x = y

\* C1: after any sequence of public operations with operands of any
\* representation, the Elems() of every sorted set (natural-order or
\* comparator) is ascending by order key and holds no two elements of equal
\* identity (strictly ascending wherever the order key is the identity).
C1_SortedSetsStaySorted ==
    \A s \in LiveSets :
        s.rep # "table" => IsSorted(s.cf, s.list) /\ IdentityUnique(s.cf, s.list)

\* C2: the list owned by a comparator sorted set with a consistent cmp/eq
\* pair is, after every public operation, non-decreasing by cmp and free of
\* two elements satisfying eq; elements of equal order key and distinct
\* identity sit next to each other in one run.
C2_FuncSortedInvariant ==
    \A s \in LiveSets :
        s.rep = "func" => IsSorted(s.cf, s.list) /\ IdentityUnique(s.cf, s.list)

C2_Witness ==
    /\ last.op \in {"Insert", "InsertAll", "InsertSet"}
    /\ sets["A"].rep = "func"
    /\ HasRun(sets["A"].cf, sets["A"].list)

\* C3: A.InsertSet(B) leaves A with the same Len(), the same Elems()
\* membership and the same Contains results as inserting each element of
\* B.Elems() into A one at a time, for every representation pairing.
C3_InsertSetIsInsertEach ==
    last.op = "InsertSet" => SameSet(sets[last.recv], ref.set)

\* C4: A.RemoveSet(B) leaves A in the same state as A.RemoveAll(B.Elems()...),
\* for every representation pairing.
C4_RemoveSetIsRemoveAll ==
    last.op = "RemoveSet" =>
        /\ SameSet(sets[last.recv], ref.set)
        /\ Elems(sets[last.recv], Ascending) = Elems(ref.set, Ascending)

\* C5: S.ContainsSet(B) returns the same boolean as S.ContainsAll(B.Elems()...),
\* also when the receiver's identity is coarser than the operand's.
C5_ContainsSetIsContainsAll ==
    last.op = "ContainsSet" => out.ok = ref.ok

\* C6: on a sorted set, InsertAll(L...) yields exactly the Elems() sequence
\* that Insert(e) for each e of L in order yields.
C6_InsertAllIsInsertEach ==
    (last.op = "InsertAll" /\ sets[last.recv].rep # "table") =>
        sets[last.recv].list = ref.set.list

\* C7: on a sorted set, RemoveAll(L...) yields exactly the Elems() sequence
\* that Remove(e) for each e of L in order yields.
C7_RemoveAllIsRemoveEach ==
    (last.op = "RemoveAll" /\ sets[last.recv].rep # "table") =>
        sets[last.recv].list = ref.set.list

\* C8: A.Union(B) has the same Elems() as a clone of A after InsertSet(B)
\* (exactly, unless a hash operand's iteration order decides
\* which value a comparator receiver stores: then as the same set).
C8_UnionIsCloneInsertSet ==
    last.op = "Union" => SameResult(out.set, ref.set)

\* C9: A.Difference(B) has the same Elems() as a clone of A after RemoveSet(B)
\* (exactly, unless a hash operand's iteration order decides
\* which value a comparator receiver stores: then as the same set).
C9_DifferenceIsCloneRemoveSet ==
    last.op = "Difference" => SameResult(out.set, ref.set)

\* C10, read to the letter: A.SymmetricDifference(B) has exactly the same
\* Elems() as A.Difference(B).Union(B.Difference(A)).
C10_Original ==
    last.op = "SymmetricDifference" => out.set = ref.set

\* C10: A.SymmetricDifference(B) is the same set as
\* A.Difference(B).Union(B.Difference(A)): same Len(), same members up to A's
\* identity, same Contains results; the Elems() are exactly the same unless A
\* is a comparator set and B a hash set, whose iteration order then decides
\* the stored value of an identity and the position inside a run.
C10_SymmetricDifferenceIsUnionOfDifferences ==
    last.op = "SymmetricDifference" => SameResult(out.set, ref.set)

\* C11: U = A.Union(B) contains every element of A.Elems() and of B.Elems():
\* U.ContainsAll(A.Elems()..., B.Elems()...) is true.
C11_UnionContainsBoth ==
    last.op = "Union" =>
        ContainsAll(out.set,
                    Elems(sets[last.recv], Ascending) \o Elems(sets[last.arg], Ascending))

\* C12: A.Difference(B).Intersection(B) is empty: its Len() is 0.
C12_DifferenceDisjointFromOperand ==
    last.op = "Difference" =>
        SetLen(Intersection(out.set, sets[last.arg])) = 0

\* The comparator name under which a kind of sorted set compares elements.
KindCmp(k) == IF k = "ordered" THEN "nat" ELSE k

\* The number of distinct identities among the elements of list L.
Identities(c, L) ==
    Cardinality({ {j \in 1..Len(L) : eq(c, L[i], L[j])} : i \in 1..Len(L) })

\* C13: a sorted set constructed from a list L (any order, with duplicates)
\* has Len() equal to the number of distinct identities in L and the same
\* Elems() as an empty set of the same kind after Insert(e) for each e of L
\* in order.
C13_ConstructIsInsertEach ==
    made.kind # "none" =>
        /\ SetLen(made.set) = Identities(KindCmp(made.kind), args)
        /\ made.set = InsertEach(NewSorted(made.kind, <<>>), args)

\* A natural-order set seeded with 2,0,1,0 (four inputs, one repeated value)
\* has Len() 3 and Elems() [0,1,2].
C13_Witness ==
    /\ made.kind = "ordered"
    /\ args = <<2, 0, 1, 0>>
    /\ SetLen(made.set) = 3
    /\ made.set.list = <<0, 1, 2>>

\* C14: calling Insert(e) a second time right after Insert(e) leaves Len() and
\* Elems() exactly as they were after the first Insert(e), and Contains(e)
\* stays true.
C14_InsertTwiceIsInsertOnce ==
    [][\A e \in WideElem :
         (last'.op = "Insert" /\ sets'["A"] = Insert(sets["A"], e)) =>
             /\ Insert(sets'["A"], e) = sets'["A"]
             /\ Contains(sets'["A"], e)]_vars

\* C15: for an element e not contained in S, Insert(e) followed by Remove(e)
\* restores the Elems() and Len() of S (an empty S is empty again), and
\* Contains(e) is false afterwards.
C15_InsertThenRemoveRestores ==
    [][\A e \in WideElem :
         (/\ last'.op = "Insert"
          /\ sets'["A"] = Insert(sets["A"], e)
          /\ ~Contains(sets["A"], e)) =>
             /\ Remove(sets'["A"], e) = sets["A"]
             /\ ~Contains(Remove(sets'["A"], e), e)]_vars

\* C16: Clone, MutableCopy and ImmutableCopy return a set whose Elems() equal
\* the receiver's, ordered by the receiver's comparator and identity; and
\* S.ImmutableCopy().MutableCopy() has the Elems() of S.
C16_CopiesHaveSameElems ==
    [][/\ \A t \in CopyMethods : \A r \in MemHandles : \A spare \in 0..MaxSpare :
            MemCopy(t, r, spare) =>
                /\ IsSet(objs'["C"])
                /\ Visible(heap', objs'["C"]) = Visible(heap, objs[r])
                /\ objs'["C"].cf = objs[r].cf
                /\ RepOf(objs'["C"].typ) = RepOf(objs[r].typ)
       /\ \A r \in MemHandles : \A spare \in 0..MaxSpare :
            MemRoundTrip(r, spare) =>
                /\ objs'["C"].typ \in VarTypes
                /\ Visible(heap', objs'["C"]) = Visible(heap, objs[r])]_vars

\* A comparator set S that holds [1] in an array with an unused slot was
\* copied by S.ImmutableCopy().MutableCopy(): the copy holds [1].
C16_Witness ==
    /\ last.op = "RoundTrip"
    /\ objs["S"].typ = "varFuncSorted"
    /\ Len(heap[1]) > objs["S"].len
    /\ Visible(heap, objs["S"]) = <<1>>
    /\ objs["C"].typ = "varFuncSorted"
    /\ Visible(heap, objs["C"]) = <<1>>

\* C17: the list Elems() returns is the caller's own: taking it and writing
\* into it leave the set's Elems() as they were, and no Insert, InsertAll,
\* InsertSet, Remove, RemoveAll or RemoveSet on the set changes the list.
C17_ElemsIsOwned ==
    [][objs'["C"].typ = "list" =>
         /\ last'.op \in {"Elems", "Write"} =>
               Visible(heap', objs'["S"]) = Visible(heap, objs["S"])
         /\ last'.op = "Elems" =>
               \E r \in {h \in MemHandles : Receiver(h)} : \E p \in ElemsOrders(r) :
                   Visible(heap', objs'["C"]) = Elems(Val(r), p)
         /\ last'.op = "Mutate" =>
               Visible(heap', objs'["C"]) = Visible(heap, objs["C"])]_vars

\* The caller overwrote the first slot of the list it got from a natural-order
\* set holding [0,1]: the list reads [1,1], the set still holds [0,1].
C17_Witness ==
    /\ last.op = "Write"
    /\ objs["S"].typ = "varSorted"
    /\ Visible(heap, objs["S"]) = <<0, 1>>
    /\ objs["C"].typ = "list"
    /\ Visible(heap, objs["C"]) = <<1, 1>>

\* The step is a mutation (Insert, InsertAll, InsertSet, Remove, RemoveAll or
\* RemoveSet) with receiver r.
MemMutates(r) ==
    /\ last'.op = "Mutate"
    /\ \/ \E e \in MemElem : \E spare \in 0..MaxSpare : MemInsert(r, e, spare)
       \/ \E es \in MemLists : \E spare \in 0..MaxSpare : MemInsertAll(r, es, spare)
       \/ \E o \in MemHandles : \E spare \in 0..MaxSpare :
             \E p \in (IF Receiver(r) /\ Receiver(o) THEN Orders(Val(r), Val(o)) ELSE {}) :
                MemInsertSet(r, o, p, spare)
       \/ \E e \in MemElem : MemRemove(r, e)
       \/ \E es \in MemLists : MemRemoveAll(r, es)
       \/ \E o \in MemHandles :
             \E p \in (IF Receiver(r) /\ Receiver(o) THEN Orders(Val(r), Val(o)) ELSE {}) :
                MemRemoveSet(r, o, p)

\* C18: what Clone, MutableCopy and ImmutableCopy return has storage of its
\* own, and a mutation of one set leaves the Elems() of the other set the
\* caller holds (its copy, or what it was copied from) unchanged.
C18_CopySharesNoStorage ==
    [][/\ last'.op \in {"Copy", "RoundTrip"} =>
            /\ IsSet(objs'["C"])
            /\ objs'["C"].arr # objs'["S"].arr
       /\ \A r \in MemHandles : \A h \in {x \in MemHandles : ~SameObj(r, x)} :
            (MemMutates(r) /\ IsSet(objs[h])) =>
                Visible(heap', objs'[h]) = Visible(heap, objs[h])]_vars

\* A natural-order mutable set S holding [0,1] was copied by ImmutableCopy():
\* the copy is an immutable natural-order set holding [0,1] in its own array.
C18_Witness ==
    /\ last.op = "Copy"
    /\ objs["S"].typ = "varSorted"
    /\ objs["C"].typ = "constSorted"
    /\ Visible(heap, objs["S"]) = <<0, 1>>
    /\ Visible(heap, objs["C"]) = <<0, 1>>
    /\ objs["C"].arr # objs["S"].arr

\* The step is r.InsertSet(o) or r.RemoveSet(o).
MemSetMutates(r, o) ==
    /\ last'.op = "Mutate"
    /\ Receiver(r) /\ Receiver(o)
    /\ \E p \in Orders(Val(r), Val(o)) :
          \/ \E spare \in 0..MaxSpare : MemInsertSet(r, o, p, spare)
          \/ MemRemoveSet(r, o, p)

\* C19: queries, Intersection, Union, Difference, SymmetricDifference, the
\* copy conversions and Elems() change no set the caller holds; InsertSet
\* and RemoveSet leave their operand's Elems() unchanged; an algebra result
\* has storage of its own; the Elems() of an immutable set never change.
C19_OnlyTheReceiverChanges ==
    [][/\ last'.op \in {"Query", "Algebra", "Copy", "RoundTrip", "Elems"} =>
            Visible(heap', objs'["S"]) = Visible(heap, objs["S"])
       /\ last'.op = "Query" =>
            Visible(heap', objs'["C"]) = Visible(heap, objs["C"])
       /\ \A r \in MemHandles : \A o \in {x \in MemHandles : ~SameObj(r, x)} :
            MemSetMutates(r, o) => Visible(heap', objs'[o]) = Visible(heap, objs[o])
       /\ last'.op = "Algebra" =>
            /\ IsSet(objs'["C"])
            /\ objs'["C"].arr # objs'["S"].arr
       /\ objs["S"].typ \in ConstTypes =>
            Visible(heap', objs'["S"]) = Visible(heap, objs["S"])
       /\ (objs["C"].typ \in ConstTypes /\ last'.op \in {"Mutate", "Query"}) =>
            Visible(heap', objs'["C"]) = Visible(heap, objs["C"])]_vars

\* An immutable natural-order set S holding [0,1] took part in an algebra
\* call whose result, an immutable natural-order set holding [1], is in an
\* array of its own: S still holds [0,1].
C19_Witness ==
    /\ last.op = "Algebra"
    /\ objs["S"].typ = "constSorted"
    /\ Visible(heap, objs["S"]) = <<0, 1>>
    /\ objs["C"].typ = "constSorted"
    /\ Visible(heap, objs["C"]) = <<1>>
    /\ objs["C"].arr # objs["S"].arr

\* C20: Intersection, Union, Difference and SymmetricDifference return a set
\* of the receiver's representation (natural-order list, comparator list
\* with the receiver's comparator, or hash table) and of the receiver's
\* capability (mutable or immutable), whatever the operand is.
C20_AlgebraKeepsRepresentation ==
    [][last'.op = "Algebra" =>
         \A op \in AlgebraOps : \A r, o \in MemHandles : \A spare \in 0..MaxSpare :
            \A p \in (IF Receiver(r) /\ Receiver(o) THEN Orders(Val(r), Val(o)) ELSE {}) :
               MemAlgebra(op, r, o, p, spare) =>
                   /\ IsSet(objs'["C"])
                   /\ AlgebraOf(op, Val(r), Val(o), p).rep = RepOf(objs[r].typ)
                   /\ AlgebraOf(op, Val(r), Val(o), p).cf = objs[r].cf
                   /\ RepOf(objs'["C"].typ) = RepOf(objs[r].typ)
                   /\ objs'["C"].cf = objs[r].cf
                   /\ (objs'["C"].typ \in VarTypes) = (objs[r].typ \in VarTypes)]_vars

\* An immutable comparator set took part in an algebra call while the other
\* set the caller holds is a mutable hash set holding {0,1}: the result is an
\* immutable comparator set, holding [1,0] in the comparator's order.
C20_Witness ==
    /\ last.op = "Algebra"
    /\ objs["S"].typ = "varTable"
    /\ Visible(heap, objs["S"]) = <<0, 1>>
    /\ objs["C"].typ = "constFuncSorted"
    /\ objs["C"].cf = "desc"
    /\ Visible(heap, objs["C"]) = <<1, 0>>

\* C22: a comparator set with a consistent cmp/eq pair contains e exactly
\* when one of its stored elements x has cmp(e, x) = 0 and eq(e, x); the
\* search finds the identity wherever it sits in the run of equal order key.
C22_ContainsIsStoredIdentity ==
    \A s \in LiveSets :
        s.rep = "func" =>
            \A e \in Elem :
                Contains(s, e) <=>
                    \E j \in 1..Len(s.list) :
                        cmp(s.cf, e, s.list[j]) = 0 /\ eq(s.cf, e, s.list[j])

\* Two elements of equal order key and distinct identity were inserted into a
\* comparator set: both are contained, the second one behind the first in
\* the run, and Len() is 2.
C22_Witness ==
    /\ last.op \in {"Insert", "InsertAll", "InsertSet"}
    /\ sets["A"].rep = "func"
    /\ sets["A"].cf = "lenval"
    /\ sets["A"].list = <<0, 1>>
    /\ Contains(sets["A"], 0) /\ Contains(sets["A"], 1)
    /\ SetLen(sets["A"]) = 2

\* list is strictly ascending in the natural order of the elements
StrictlyAscending(list) == \A j \in 1..(Len(list) - 1) : list[j] < list[j + 1]

\* C28: at every call of MergeSortedUniq or DeleteSortedUniq made by the
\* insertSet or removeSet of a natural-order set, the second argument is
\* strictly ascending in natural order and free of duplicates, for every
\* operand that takes the SortedView branch, comparator sets included.
C28_SortedViewOperandIsAscending ==
    [][(/\ last'.op \in {"InsertSet", "RemoveSet"}
        /\ sets[last'.recv].rep = "ordered"
        /\ sets[last'.arg].rep = "func")
       => StrictlyAscending(sortedViewElems(sets[last'.arg], Ascending))]_vars

\* C29: a sorted set is a safe operand of its own calls, although receiver
\* and operand then share one backing list: A.InsertSet(A) leaves Len() and
\* Elems() of A unchanged, A.RemoveSet(A) leaves A empty, and
\* A.ContainsSet(A) returns true.
C29_SelfOperandIsSafe ==
    [][(last'.recv = last'.arg /\ sets[last'.recv].rep # "table") =>
         LET r == last'.recv
         IN /\ last'.op = "InsertSet" =>
                   /\ SetLen(sets'[r]) = SetLen(sets[r])
                   /\ Elems(sets'[r], Ascending) = Elems(sets[r], Ascending)
            /\ last'.op = "RemoveSet" =>
                   /\ SetLen(sets'[r]) = 0
                   /\ Elems(sets'[r], Ascending) = <<>>
            /\ last'.op = "ContainsSet" => out'.ok]_vars

\* A natural-order set holding two elements was inserted into itself.
C29_Witness ==
    /\ last = Call("InsertSet", "A", "A")
    /\ sets["A"].rep = "ordered"
    /\ sets["A"].list = <<0, 2>>

\* C27: for two natural-order sets the two-pointer paths of Intersection,
\* Union, Difference, SymmetricDifference and ContainsSet return exactly the
\* Elems() / boolean that the default path returns, which uses only the
\* operand's Contains, Range and Elems.
C27_FastPathIsGenericPath ==
    (sets[last.recv].rep = "ordered" /\ sets[last.arg].rep = "ordered") =>
        LET s == sets[last.recv]
            other == sets[last.arg]
        IN /\ last.op = "Intersection" =>
                  out.set = ordered_intersection(s, asView(other))
           /\ last.op = "Union" =>
                  out.set = ordered_union(s, asView(other), Ascending)
           /\ last.op = "Difference" =>
                  out.set = ordered_difference(s, asView(other))
           /\ last.op = "SymmetricDifference" =>
                  out.set = ordered_symmetricDifference(s, asView(other), Ascending)
           /\ last.op = "ContainsSet" =>
                  out.ok = ordered_ContainsSet(s, asView(other))

\* C21: Range on a sorted set calls the visitor with the elements in the
\* order of Elems(), which is ascending, each element once, and stops at the
\* first call that returns false: a visitor returning false on its k-th call
\* is called exactly k times, one that never does exactly Len() times.
C21_RangeVisitsInOrderAndStops ==
    (last.op = "Range" /\ sets[last.recv].rep # "table") =>
        LET s == sets[last.recv]
            n == IF out.k = 0 \/ out.k > SetLen(s) THEN SetLen(s) ELSE out.k
        IN /\ out.calls = SubSeq(Elems(s, Ascending), 1, n)
           /\ Len(out.calls) = n
           /\ IsSorted(s.cf, out.calls)
           /\ IdentityUnique(s.cf, out.calls)

\* The arguments MergeSortedUniq / MergeSorted hands to insertInto for the
\* lists of the call, and the indices DeleteSortedUniq / DeleteSorted hands
\* to deleteFrom.
FnMergePlan ==
    IF fn.cf = "nat" THEN MergeSortedUniqLoop(fn.a, fn.b, 0, 0, <<>>)
    ELSE MergeSortedLoop(fn.cf, fn.a, fn.b, 0, 0, <<>>)

FnDeletePlan ==
    IF fn.cf = "nat" THEN DeleteSortedUniqLoop(fn.a, fn.b, 0, 0, <<>>)
    ELSE DeleteSortedLoop(fn.cf, fn.a, fn.b, 0, 0, <<>>)

\* C23: on lists that are unsorted or hold duplicates, and with cmp / eq
\* functions that contradict each other, MergeSorted, MergeSortedUniq,
\* DeleteSorted and DeleteSortedUniq index nothing outside the list and
\* return; the merge result has len(A) + scheduled inserts + unconsumed tail
\* of B elements, the delete result len(A) - marked indices.
C23_NoPanicOnViolatedPreconditions ==
    /\ fn.op \in {"MergeSortedUniq", "MergeSorted"} =>
           /\ insertIntoInBounds(FnMergePlan.a, FnMergePlan.tail, FnMergePlan.inserts)
           /\ Len(fn.res) = Len(fn.a) + Len(FnMergePlan.inserts) + Len(FnMergePlan.tail)
    /\ fn.op \in {"DeleteSortedUniq", "DeleteSorted"} =>
           /\ deleteFromInBounds(fn.a, FnDeletePlan)
           /\ Len(fn.res) = Len(fn.a) - Len(FnDeletePlan)

\* A sorted list was merged into an unsorted list holding a duplicate, under
\* a comparator pair whose eq holds for elements that cmp tells apart: one
\* insert was scheduled, one element of B was left as the tail, and the
\* result has 3 + 1 + 1 elements.
C23_Witness ==
    /\ fn.op = "MergeSorted"
    /\ fn.cf = "eqkey"
    /\ fn.a = <<1, 0, 1>>
    /\ fn.b = <<0, 2>>
    /\ Len(FnMergePlan.inserts) = 1
    /\ Len(FnMergePlan.tail) = 1
    /\ Len(fn.res) = 5

\* list holds an element of the identity of e
HasId(c, e, list) == \E j \in 1..Len(list) : eq(c, e, list[j])

\* list holds the value e
HasValue(e, list) == \E j \in 1..Len(list) : list[j] = e

\* The lists of the call are sorted and identity-unique under a consistent
\* comparator pair.
FnSortedUniq(list) ==
    fn.cf \in GoodCmps /\ IsSorted(fn.cf, list) /\ IdentityUnique(fn.cf, list)

\* e has an identity A lacks and an order key A holds.
NewInRun(c, e, A) == ~HasId(c, e, A) /\ \E j \in 1..Len(A) : cmp(c, e, A[j]) = 0

\* C24: for sorted, identity-unique A and B, MergeSorted (MergeSortedUniq in
\* natural order) returns a sorted, identity-unique list holding exactly the
\* identities of A and of B; an identity of both is stored with B's value;
\* the elements of A keep their relative order; the elements of B of a new
\* identity whose order key A already holds come behind A's run of that key,
\* in B's order.
C24_MergeIsSortedUnion ==
    (/\ fn.op \in {"MergeSortedUniq", "MergeSorted"}
     /\ FnSortedUniq(fn.a) /\ FnSortedUniq(fn.b)) =>
        LET c == fn.cf
            A == fn.a
            B == fn.b
            R == fn.res
            RA == SelectSeq(R, LAMBDA e : HasId(c, e, A))
        IN /\ IsSorted(c, R) /\ IdentityUnique(c, R)
           /\ \A j \in 1..Len(R) : HasId(c, R[j], A) \/ HasId(c, R[j], B)
           /\ \A j \in 1..Len(B) : HasValue(B[j], R)
           /\ \A j \in 1..Len(A) :
                  /\ HasId(c, A[j], R)
                  /\ ~HasId(c, A[j], B) => HasValue(A[j], R)
           /\ Len(RA) = Len(A)
           /\ \A j \in 1..Len(RA) : eq(c, RA[j], A[j])
           /\ SelectSeq(R, LAMBDA e : NewInRun(c, e, A))
                  = SelectSeq(B, LAMBDA e : NewInRun(c, e, A))
           /\ \A i, j \in 1..Len(R) :
                  (NewInRun(c, R[i], A) /\ HasId(c, R[j], A) /\ cmp(c, R[i], R[j]) = 0)
                      => j < i

\* B holds 1, whose identity A stores as 0, and 2, which is new: the result
\* stores B's value 1 in the place of 0 and 2 behind it.
C24_Witness ==
    /\ fn.op = "MergeSorted"
    /\ fn.cf = "len"
    /\ fn.a = <<0>>
    /\ fn.b = <<1, 2>>
    /\ fn.res = <<1, 2>>

\* C25: for a sorted, identity-unique A and a sorted B, with or without
\* repeated elements, DeleteSorted (DeleteSortedUniq in natural order)
\* returns the elements of A whose identity no element of B has, in their
\* order in A; its length is len(A) less the number of elements matched; the
\* slots of the backing array behind the result hold the zero value.
C25_DeleteIsSortedDifference ==
    (/\ fn.op \in {"DeleteSortedUniq", "DeleteSorted"}
     /\ FnSortedUniq(fn.a)
     /\ IsSorted(fn.cf, fn.b)) =>
        LET c == fn.cf
            A == fn.a
            B == fn.b
            matched == {j \in 1..Len(A) : HasId(c, A[j], B)}
        IN /\ fn.res = SelectSeq(A, LAMBDA e : ~HasId(c, e, B))
           /\ Len(fn.res) = Len(A) - Cardinality(matched)
           /\ Len(fn.arr) = Len(A)
           /\ SubSeq(fn.arr, 1, Len(fn.res)) = fn.res
           /\ \A j \in (Len(fn.res) + 1)..Len(fn.arr) : fn.arr[j] = Zero

\* 1, given twice, was deleted from [0, 1, 2]: 2 was slid into its place and
\* the slot 2 left holds the zero value.
C25_Witness ==
    /\ fn.op = "DeleteSortedUniq"
    /\ fn.a = <<0, 1, 2>>
    /\ fn.b = <<1, 1>>
    /\ fn.res = <<0, 2>>
    /\ fn.arr = <<0, 2, 0>>

\* Index of the first / last element of list that has the identity of e.
FirstId(c, e, list) ==
    CHOOSE j \in 1..Len(list) :
        eq(c, e, list[j]) /\ \A i \in 1..(j - 1) : ~eq(c, e, list[i])

LastId(c, e, list) ==
    CHOOSE j \in 1..Len(list) :
        eq(c, e, list[j]) /\ \A i \in (j + 1)..Len(list) : ~eq(c, e, list[i])

\* C26: for any list L, StableSortUniqFuncs returns a list non-decreasing by
\* cmp that holds exactly one element per identity of L, with the value of
\* the identity's last occurrence in L; the identities of one run of equal
\* order key stand in the order of their first occurrence in L; an empty L
\* gives an empty list.
C26_StableSortUniqKeepsLastValue ==
    (fn.op = "StableSortUniqFuncs" /\ fn.cf \in GoodCmps) =>
        LET c == fn.cf
            L == fn.a
            R == fn.res
        IN /\ IsSorted(c, R) /\ IdentityUnique(c, R)
           /\ \A j \in 1..Len(L) : HasId(c, L[j], R)
           /\ \A j \in 1..Len(R) :
                  HasId(c, R[j], L) /\ R[j] = L[LastId(c, R[j], L)]
           /\ \A i, j \in 1..Len(R) :
                  (i < j /\ cmp(c, R[i], R[j]) = 0)
                      => FirstId(c, R[i], L) < FirstId(c, R[j], L)
           /\ L = <<>> => R = <<>>

\* [2, 0, 1] under the order key x div 2, which is also the identity: 0 and
\* 1 are one identity, stored once with the value 1 that came last, in front
\* of 2.
C26_Witness ==
    /\ fn.op = "StableSortUniqFuncs"
    /\ fn.cf = "len"
    /\ fn.a = <<2, 0, 1>>
    /\ fn.res = <<1, 2>>

\* C30: the handle got from Mutable() on a sorted mutable set, or from
\* Immutable() on a sorted immutable set, is the same set under another
\* type, not a copy: after any mutations made through either handle both
\* report the same Len() and Elems(), and the list they share is still in
\* order and identity-unique.
C30_ViewIsTheSameSet ==
    objs["C"].same =>
        /\ objs["C"].arr = objs["S"].arr
        /\ SetLen(Val("C")) = SetLen(Val("S"))
        /\ Elems(Val("C"), Ascending) = Elems(Val("S"), Ascending)
        /\ IsSorted(objs["S"].cf, Visible(heap, objs["S"]))
        /\ IdentityUnique(objs["S"].cf, Visible(heap, objs["S"]))

====
